---- MODULE Spec2Model ----
(***************************************************************************)
(* Model of gtrivelli/aidiff: the LLM-response parsing pipeline.           *)
(*                                                                         *)
(*   aidiff package (AIDiffReviewer.review, steps 8-9, JSON output):       *)
(*     IssueParser.parse_llm_output -> IssueFilter.filter_false_positives  *)
(*       -> DTOConverter.convert_issues_to_dto -> to_dict / from_dict      *)
(*   legacy entry point (main.py):                                         *)
(*     LLMResultProcessor.process_llm_response -> to_dict / from_dict      *)
(*                                                                         *)
(* A Python str is a sequence of one-character strings; S("abc") is the    *)
(* literal.  The alphabet of the model has "\n" as its only line break     *)
(* and " ", "\t", "\n" as its white space.  Python's None is the value     *)
(* None below, which is no str.                                            *)
(***************************************************************************)
EXTENDS Integers, Sequences, FiniteSets, TLC

VARIABLES
    pc,                \* position of the run: which step was executed last
    output,            \* the raw LLM response given to the parser
    issues,            \* List[Issue] returned by parse_llm_output
    gitignore_file,    \* the .gitignore of the working directory: its text, or None when it cannot be read
    gitignore_content, \* what _read_gitignore returned
    filtered,          \* List[Issue] returned by filter_false_positives
    review_types,      \* config.modes / args.modes
    files_analyzed,    \* the files the diff under review names (analyzed_files of main.py)
    result,            \* the AnalysisResultDTO, or None
    error,             \* the exception that ended the run, or "none"
    data,              \* result.to_dict(), or None
    restored,          \* AnalysisResultDTO.from_dict(data), or None
    fn,                \* the function called alone, or "none"
    arg,               \* the argument of that call
    ret,               \* what the call returned, or the exception it raised
    config,            \* the options of the command line, or None
    dry_run,           \* config.dry_run / args.dry_run as the run goes on
    llm_calls,         \* how many times the run called the LLM provider
    printed            \* what the run wrote, the returned text included

\* the variables of a call of one function
call_vars == <<fn, arg, ret>>

\* the variables of the command line and of the LLM call
run_vars == <<config, dry_run, llm_calls, printed>>

vars == <<pc, output, issues, gitignore_file, gitignore_content, filtered, review_types,
          files_analyzed, result, error, data, restored, fn, arg, ret, config, dry_run,
          llm_calls, printed>>

-----------------------------------------------------------------------------
(* Python str primitives *)

S(s) == [i \in 1..Len(s) |-> SubSeq(s, i, i)]

None == <<"<None>">>

\* an Optional object is <<>> (None) or <<the object>>
Some(x) == <<x>>

Nothing == <<>>

NL == "\n"

WhiteSpace == {" ", "\n", "\t"}

UpperChars == S("ABCDEFGHIJKLMNOPQRSTUVWXYZ")

LowerChars == S("abcdefghijklmnopqrstuvwxyz")

Digits == S("0123456789")

DigitSet == {Digits[i] : i \in 1..10}

UpperSet == {UpperChars[i] : i \in 1..26}

LowerSet == {LowerChars[i] : i \in 1..26}

\* \w of the re module, on the model's alphabet
WordChars == UpperSet \cup LowerSet \cup DigitSet \cup {"_"}

LowerOf == [c \in UpperSet |-> LowerChars[CHOOSE i \in 1..26 : UpperChars[i] = c]]

DigitValue == [c \in DigitSet |-> (CHOOSE i \in 1..10 : Digits[i] = c) - 1]

\* the members of a list
Range(xs) == {xs[i] : i \in 1..Len(xs)}

Min(X) == CHOOSE x \in X : \A y \in X : x <= y

Max(X) == CHOOSE x \in X : \A y \in X : x >= y

\* str.lower()
lower(s) == [i \in 1..Len(s) |-> IF s[i] \in UpperSet THEN LowerOf[s[i]] ELSE s[i]]

\* str.strip()
strip(s) ==
    LET keep == {i \in 1..Len(s) : s[i] \notin WhiteSpace}
    IN  IF keep = {} THEN <<>> ELSE SubSeq(s, Min(keep), Max(keep))

\* str.lstrip()
lstrip(s) ==
    LET keep == {i \in 1..Len(s) : s[i] \notin WhiteSpace}
    IN  IF keep = {} THEN <<>> ELSE SubSeq(s, Min(keep), Len(s))

\* s[i:].startswith(p), i counted from 1
StartsAt(s, i, p) ==
    /\ i >= 1
    /\ i + Len(p) - 1 <= Len(s)
    /\ \A k \in 1..Len(p) : s[i + k - 1] = p[k]

\* str.startswith
startswith(s, p) == StartsAt(s, 1, p)

\* str.endswith
endswith(s, p) == StartsAt(s, Len(s) - Len(p) + 1, p)

\* p in s
contains(s, p) == \E i \in 1..(Len(s) - Len(p) + 1) : StartsAt(s, i, p)

\* s[n:] for 0 <= n
DropFirst(s, n) == SubSeq(s, n + 1, Len(s))

\* s[:n] for 0 <= n
TakeFirst(s, n) == SubSeq(s, 1, IF n < Len(s) THEN n ELSE Len(s))

\* the pieces of s around the delimiter occurrences cuts, a set of disjoint
\* <<first, last>> index pairs: what str.split and re.split return
Pieces(s, cuts) ==
    LET n == Cardinality(cuts)
        kth(k) == CHOOSE c \in cuts : Cardinality({d \in cuts : d[1] < c[1]}) = k - 1
        from(k) == IF k = 1 THEN 1 ELSE kth(k - 1)[2] + 1
        to(k) == IF k = n + 1 THEN Len(s) ELSE kth(k)[1] - 1
    IN  [k \in 1..(n + 1) |-> SubSeq(s, from(k), to(k))]

\* the maximal runs of the character c in s, as <<first, last>>
Runs(s, c) ==
    {<<i, Min({j \in i..Len(s) : j = Len(s) \/ s[j + 1] # c})>> :
        i \in {k \in 1..Len(s) : s[k] = c /\ (k = 1 \/ s[k - 1] # c)}}

\* re.split(r'---+', s): the delimiters are the maximal runs of three or more hyphens
re_split_hyphens(s) == Pieces(s, {r \in Runs(s, "-") : r[2] - r[1] + 1 >= 3})

\* s.split('---'): the delimiters are the leftmost non-overlapping '---'
split_hyphens(s) ==
    Pieces(s, UNION {{<<r[1] + 3 * m, r[1] + 3 * m + 2>> :
                         m \in 0..(((r[2] - r[1] + 1) \div 3) - 1)} : r \in Runs(s, "-")})

\* s.split(c) for a one-character separator
split_char(s, c) == Pieces(s, {<<i, i>> : i \in {k \in 1..Len(s) : s[k] = c}})

\* str.splitlines(): no line for the empty remainder after a final line break
splitlines(s) ==
    LET ps == split_char(s, NL)
    IN  IF ps[Len(ps)] = <<>> THEN SubSeq(ps, 1, Len(ps) - 1) ELSE ps

\* sep.join(xs)
RECURSIVE join(_, _)
join(sep, xs) ==
    IF xs = <<>> THEN <<>>
    ELSE IF Len(xs) = 1 THEN xs[1]
    ELSE xs[1] \o sep \o join(sep, Tail(xs))

-----------------------------------------------------------------------------
(* aidiff/core/models.py *)

\* Issue(**kw): the dataclass with its defaults; kw is a dict with the keys
\* issue and file at least
Issue(kw) ==
    [issue       |-> kw["issue"],
     file        |-> kw["file"],
     severity    |-> IF "severity" \in DOMAIN kw THEN kw["severity"] ELSE <<>>,
     confidence  |-> IF "confidence" \in DOMAIN kw THEN kw["confidence"] ELSE <<>>,
     suggestion  |-> IF "suggestion" \in DOMAIN kw THEN kw["suggestion"] ELSE <<>>,
     line_number |-> IF "line_number" \in DOMAIN kw THEN kw["line_number"] ELSE <<>>,
     code        |-> IF "code" \in DOMAIN kw THEN kw["code"] ELSE <<>>]

-----------------------------------------------------------------------------
(* aidiff/utils/issue_parser.py *)

\* the keys of field_map, in insertion order
FieldNames == <<"File", "Issue", "Severity", "Confidence", "Suggestion", "Line Number", "Code">>

field_map ==
    [f \in {FieldNames[i] : i \in 1..Len(FieldNames)} |->
        CASE f = "File" -> "file"
          [] f = "Issue" -> "issue"
          [] f = "Severity" -> "severity"
          [] f = "Confidence" -> "confidence"
          [] f = "Suggestion" -> "suggestion"
          [] f = "Line Number" -> "line_number"
          [] f = "Code" -> "code"]

\* field = None
NoField == "<no field>"

markdown_prefix(f) == S("**") \o S(f) \o S(":**")

plain_prefix(f) == S(f) \o S(":")

\* the backtick character, which a TLA+ string literal cannot hold
BT == "<backtick>"

Fence3 == <<BT, BT, BT>>

Fence2 == <<BT, BT>>

\* the first key of field_map whose bold or plain prefix starts the line
matched_field(line_stripped, in_code_block) ==
    LET hits == {i \in 1..Len(FieldNames) :
                    \/ startswith(line_stripped, markdown_prefix(FieldNames[i])) /\ ~in_code_block
                    \/ startswith(line_stripped, plain_prefix(FieldNames[i])) /\ ~in_code_block}
    IN  IF hits = {} THEN NoField ELSE FieldNames[Min(hits)]

\* re.sub(rf'^{delim}[a-zA-Z0-9]*', '', val)
sub_leading_fence(val, delim) ==
    IF ~startswith(val, delim) THEN val
    ELSE LET rest == DropFirst(val, Len(delim))
             stop == {i \in 1..Len(rest) : rest[i] \notin (WordChars \ {"_"})}
         IN  IF stop = {} THEN <<>> ELSE DropFirst(rest, Min(stop) - 1)

\* re.sub(rf'{delim}$', '', val): $ is the end, or the place before a final line break
sub_trailing_fence(val, delim) ==
    IF endswith(val, delim) THEN TakeFirst(val, Len(val) - Len(delim))
    ELSE IF endswith(val, delim \o <<NL>>) THEN TakeFirst(val, Len(val) - Len(delim) - 1) \o <<NL>>
    ELSE val

_process_field_value(value_lines, field, code_block_delim) ==
    LET val == strip(join(<<NL>>, value_lines))
    IN  IF field = "Code" /\ code_block_delim # None
        THEN strip(sub_trailing_fence(sub_leading_fence(val, code_block_delim), code_block_delim))
        ELSE val

\* lines 124-126 and 158-160: the dict with the open field stored, if it has lines
SaveField(st) ==
    IF st.field # NoField /\ st.value_lines # <<>>
    THEN (field_map[st.field] :> _process_field_value(st.value_lines, st.field, st.code_block_delim))
         @@ st.issue_data
    ELSE st.issue_data

\* lines 131-137: the text after the label of field mf, in its bold or plain form
LabelValue(line_stripped, mf) ==
    IF startswith(line_stripped, markdown_prefix(mf))
    THEN lstrip(DropFirst(line_stripped, Len(markdown_prefix(mf))))
    ELSE lstrip(DropFirst(line_stripped, Len(plain_prefix(mf))))

\* line 140: the value of a Code label opens a fence
OpensFence(mf, val) == mf = "Code" /\ (startswith(val, Fence3) \/ startswith(val, Fence2))

\* lines 122-147: a label line closes the open field and starts field mf with val
StartField(st, mf, val) ==
    [issue_data       |-> SaveField(st),
     field            |-> mf,
     in_code_block    |-> OpensFence(mf, val),
     code_block_delim |-> IF OpensFence(mf, val)
                          THEN (IF startswith(val, Fence3) THEN TakeFirst(val, 3)
                                                          ELSE TakeFirst(val, 2))
                          ELSE None,
     value_lines      |-> IF OpensFence(mf, val) \/ val # <<>> THEN <<val>> ELSE <<>>]

\* lines 148-155: any other line goes to the open field, if there is one
ContinueField(st, line, line_stripped) ==
    IF st.field = "Code" /\ (st.in_code_block \/ startswith(line_stripped, Fence3)
                                              \/ startswith(line_stripped, Fence2))
    THEN [st EXCEPT !.value_lines = Append(@, line),
                    !.in_code_block = IF st.code_block_delim # None
                                         /\ startswith(line_stripped, st.code_block_delim)
                                      THEN FALSE ELSE @]
    ELSE IF st.field # NoField
    THEN [st EXCEPT !.value_lines = Append(@, line)]
    ELSE st

ApplyLine(st, line, line_stripped, mf) ==
    IF mf # NoField
    THEN StartField(st, mf, LabelValue(line_stripped, mf))
    ELSE ContinueField(st, line, line_stripped)

\* one turn of the loop over the lines of a block (lines 105-155); st holds
\* issue_data, field, value_lines, in_code_block and code_block_delim
ParseBlockLine(st, line) ==
    ApplyLine(st, line, strip(line), matched_field(strip(line), st.in_code_block))

RECURSIVE ParseBlockLines(_, _, _)
ParseBlockLines(st, lines, i) ==
    IF i > Len(lines) THEN st ELSE ParseBlockLines(ParseBlockLine(st, lines[i]), lines, i + 1)

\* the dict of the fields found in one block
_parse_issue_block(block) ==
    SaveField(ParseBlockLines([issue_data |-> <<>>, field |-> NoField, value_lines |-> <<>>,
                               in_code_block |-> FALSE, code_block_delim |-> None],
                              splitlines(block), 1))

\* a line that starts a new issue in the fallback split (line 47)
IsIssueLine(line) ==
    startswith(strip(line), S("Issue:")) \/ startswith(strip(line), S("**Issue:**"))

\* variant: the lines before the first Issue line are kept as a block
RECURSIVE SplitByIssueLines_keeping_first_lines(_, _, _)
SplitByIssueLines_keeping_first_lines(acc, lines, i) ==
    IF i > Len(lines)
    THEN (IF acc[2] # <<>> THEN Append(acc[1], join(<<NL>>, acc[2])) ELSE acc[1])
    ELSE IF IsIssueLine(lines[i])
    THEN SplitByIssueLines_keeping_first_lines(
             <<IF acc[2] # <<>> THEN Append(acc[1], join(<<NL>>, acc[2])) ELSE acc[1],
               <<lines[i]>> >>, lines, i + 1)
    ELSE SplitByIssueLines_keeping_first_lines(<<acc[1], Append(acc[2], lines[i])>>, lines, i + 1)

\* lines 41-57: acc is <<issue_blocks, current_block>>
RECURSIVE SplitByIssueLines(_, _, _)
SplitByIssueLines(acc, lines, i) ==
    IF i > Len(lines)
    THEN (IF acc[2] # <<>> THEN Append(acc[1], join(<<NL>>, acc[2])) ELSE acc[1])
    ELSE IF IsIssueLine(lines[i])
    THEN SplitByIssueLines(<<IF acc[2] # <<>> THEN Append(acc[1], join(<<NL>>, acc[2])) ELSE acc[1],
                             <<lines[i]>> >>, lines, i + 1)
    ELSE IF acc[2] # <<>>
    THEN SplitByIssueLines(<<acc[1], Append(acc[2], lines[i])>>, lines, i + 1)
    ELSE SplitByIssueLines(acc, lines, i + 1)

\* variant: the response is always split at its Issue lines
IssueBlocks_at_issue_lines(out) == SplitByIssueLines(<< <<>>, <<>> >>, splitlines(out), 1)

\* lines 35-57
IssueBlocks(out) ==
    LET issue_blocks == re_split_hyphens(out)
    IN  IF Len(issue_blocks) <= 1
        THEN SplitByIssueLines(<< <<>>, <<>> >>, splitlines(out), 1)
        ELSE issue_blocks

\* lines 59-62: the blocks that are parsed, trimmed, the empty ones skipped
RECURSIVE stripped_blocks(_)
stripped_blocks(blocks) ==
    IF blocks = <<>> THEN <<>>
    ELSE (IF strip(Head(blocks)) = <<>> THEN <<>> ELSE <<strip(Head(blocks))>>)
             \o stripped_blocks(Tail(blocks))

\* block.strip()[:100] + "..." if len(block.strip()) > 100 else block.strip()
DescriptionLimit == 100

Excerpt(block) ==
    IF Len(strip(block)) > DescriptionLimit
    THEN TakeFirst(strip(block), DescriptionLimit) \o S("...")
    ELSE strip(block)

\* lines 67-68
with_issue(issue_data, block) ==
    IF "issue" \notin DOMAIN issue_data \/ issue_data["issue"] = <<>>
    THEN ("issue" :> Excerpt(block)) @@ issue_data ELSE issue_data

\* lines 69-70
with_file(issue_data) ==
    IF "file" \notin DOMAIN issue_data \/ issue_data["file"] = <<>>
    THEN ("file" :> S("N/A")) @@ issue_data ELSE issue_data

\* lines 65-72: the issue of a block whose dict is issue_data, if the dict is not empty
IssueOfBlock(block, issue_data) ==
    IF DOMAIN issue_data = {} THEN <<>>
    ELSE <<Issue(with_file(with_issue(issue_data, block)))>>

\* lines 59-72, for one block: the issues it adds
BlockIssues(raw_block) ==
    IF strip(raw_block) = <<>> THEN <<>>
    ELSE IssueOfBlock(strip(raw_block), _parse_issue_block(strip(raw_block)))

RECURSIVE AllBlockIssues(_, _)
AllBlockIssues(blocks, i) ==
    IF i > Len(blocks) THEN <<>> ELSE BlockIssues(blocks[i]) \o AllBlockIssues(blocks, i + 1)

\* lines 74-84: the whole output as a single issue when none was found
or_whole_output(found, out) ==
    IF found = <<>>
    THEN <<[issue |-> strip(out), file |-> S("N/A"), severity |-> <<>>, confidence |-> <<>>,
            suggestion |-> <<>>, line_number |-> S("N/A"), code |-> S("N/A")]>>
    ELSE found

\* IssueParser.parse_llm_output
parse_llm_output(out) == or_whole_output(AllBlockIssues(IssueBlocks(out), 1), out)

-----------------------------------------------------------------------------
(* aidiff/utils/issue_filter.py *)

generic_fields ==
    {S("suggestion"), S("issue"), S("severity"), S("confidence"), S("file"), S("code"),
     S("line number")}

\* re.match(r'^[a-z_]*key[a-z_]*$', value), value stripped
MatchesKeyWord(value) ==
    /\ \A i \in 1..Len(value) : value[i] \in LowerSet \cup {"_"}
    /\ contains(value, S("key"))

\* re.match(r'<.*>', value): '.' matches no line break
MatchesTemplate(value) ==
    /\ Len(value) >= 2
    /\ value[1] = "<"
    /\ \E j \in 2..Len(value) : value[j] = ">" /\ \A k \in 2..(j - 1) : value[k] # NL

_is_placeholder_value(val) ==
    IF val = <<>> THEN FALSE
    ELSE LET value == lower(strip(val))
         IN  \/ contains(value, S("your")) /\ contains(value, S("key"))
             \/ contains(value, S("example"))
             \/ startswith(value, S("<")) /\ endswith(value, S(">"))
             \/ contains(value, S("changeme"))
             \/ contains(value, S("placeholder"))
             \/ MatchesKeyWord(value)
             \/ MatchesTemplate(value)

\* the text of the file, or '' when open() or read() raises
_read_gitignore(file) == IF file = None THEN <<>> ELSE file

\* _is_false_positive without the test of the .gitignore content
_is_false_positive_any_gitignore(issue, gitignore) ==
    \/ _is_placeholder_value(issue.code)
    \/ _is_placeholder_value(issue.suggestion)
    \/ _is_placeholder_value(issue.issue)
    \/ /\ strip(issue.file) = S(".gitignore")
       /\ contains(lower(issue.issue), S("not added to"))

_is_false_positive(issue, gitignore) ==
    \/ _is_placeholder_value(issue.code)
    \/ _is_placeholder_value(issue.suggestion)
    \/ _is_placeholder_value(issue.issue)
    \/ /\ strip(issue.file) = S(".gitignore")
       /\ contains(lower(issue.issue), S("not added to"))
       /\ contains(gitignore, S(".env"))

\* re.fullmatch(r'^[\W_]+$', issue_val)
OnlyNonWord(issue_val) ==
    /\ issue_val # <<>>
    /\ \A i \in 1..Len(issue_val) : issue_val[i] \notin (WordChars \ {"_"})

\* variant: only label names and punctuation are refused
_is_real_issue_unless_label(issue) ==
    LET issue_val == lower(strip(issue.issue))
    IN  ~(issue_val \in generic_fields \/ OnlyNonWord(issue_val))

\* the value _is_real_issue returns
_is_real_issue(issue) ==
    /\ \/ strip(issue.issue) # <<>>
       \/ strip(issue.suggestion) # <<>>
       \/ strip(issue.severity) # <<>>
       \/ strip(issue.confidence) # <<>>
    /\ LET issue_val == lower(strip(issue.issue))
       IN  ~(issue_val \in generic_fields \/ issue_val = <<>> \/ OnlyNonWord(issue_val))

\* variant: the code of every kept issue is trimmed
CleanedIssue_code_stripped(issue) == [issue EXCEPT !.code = strip(@)]

\* the issue as _is_real_issue leaves it when it returns True (lines 131-133)
CleanedIssue(issue) == [issue EXCEPT !.code = IF strip(@) = <<>> THEN <<>> ELSE @]

\* whether the loop of filter_false_positives appends the issue
IsKept(issue, gitignore) == ~_is_false_positive(issue, gitignore) /\ _is_real_issue(issue)

\* the list filter_false_positives returns
RECURSIVE filter_false_positives(_, _)
filter_false_positives(iss, gitignore) ==
    IF iss = <<>> THEN <<>>
    ELSE (IF IsKept(iss[1], gitignore) THEN <<CleanedIssue(iss[1])>> ELSE <<>>)
         \o filter_false_positives(Tail(iss), gitignore)

\* the caller's list afterwards: the kept Issue objects are cleaned in place
IssuesAfterFilter(iss, gitignore) ==
    [i \in 1..Len(iss) |-> IF IsKept(iss[i], gitignore) THEN CleanedIssue(iss[i]) ELSE iss[i]]

-----------------------------------------------------------------------------
(* dto.py *)

\* the members of class Severity and their values (lines 9-13)
SeverityMembers == {"Severity.HIGH", "Severity.MEDIUM", "Severity.LOW"}

SeverityValue ==
    [m \in SeverityMembers |->
        CASE m = "Severity.HIGH" -> S("High")
          [] m = "Severity.MEDIUM" -> S("Medium")
          [] m = "Severity.LOW" -> S("Low")]

\* the members of class ReviewType and their values (lines 15-19)
ReviewTypeMembers == {"ReviewType.SECURITY", "ReviewType.ACCESSIBILITY", "ReviewType.PERFORMANCE"}

ReviewTypeValue ==
    [m \in ReviewTypeMembers |->
        CASE m = "ReviewType.SECURITY" -> "security"
          [] m = "ReviewType.ACCESSIBILITY" -> "accessibility"
          [] m = "ReviewType.PERFORMANCE" -> "performance"]

\* what an expression that yields an enum member evaluates to when it raises
ValueError == "raise ValueError"

AttributeError == "raise AttributeError"

Raise(exc) == exc

Raised(v) == v \in {ValueError, AttributeError}

\* Severity(value): the member with that value, or ValueError
SeverityOf(value) ==
    IF \E m \in SeverityMembers : SeverityValue[m] = value
    THEN CHOOSE m \in SeverityMembers : SeverityValue[m] = value
    ELSE Raise(ValueError)

\* ReviewType(value): the member with that value, or ValueError
ReviewTypeOf(value) ==
    IF \E m \in ReviewTypeMembers : ReviewTypeValue[m] = value
    THEN CHOOSE m \in ReviewTypeMembers : ReviewTypeValue[m] = value
    ELSE Raise(ValueError)

\* ReviewType.<NAME>: the member, or AttributeError
ReviewTypeAttr(name) ==
    IF name \in ReviewTypeMembers THEN name ELSE Raise(AttributeError)

\* parse_severity without lower() and strip()
parse_severity_as_written(severity_str) ==
    IF severity_str \in {S("critical"), S("high")} THEN "Severity.HIGH"
    ELSE IF severity_str \in {S("low"), S("minor")} THEN "Severity.LOW"
    ELSE "Severity.MEDIUM"

parse_severity(severity_str) ==
    LET s == strip(lower(severity_str))
    IN  IF s \in {S("critical"), S("high")} THEN "Severity.HIGH"
        ELSE IF s \in {S("medium"), S("moderate")} THEN "Severity.MEDIUM"
        ELSE IF s \in {S("low"), S("minor")} THEN "Severity.LOW"
        ELSE "Severity.MEDIUM"

\* str.isdigit() on the model's alphabet
isdigit(s) == s # <<>> /\ \A i \in 1..Len(s) : s[i] \in DigitSet

\* the value of a string of digits
RECURSIVE DigitsValue(_)
DigitsValue(ds) ==
    IF ds = <<>> THEN 0 ELSE 10 * DigitsValue(SubSeq(ds, 1, Len(ds) - 1)) + DigitValue[ds[Len(ds)]]

\* the text int() reads: white space around an optional sign and the digits
IntBody(str) ==
    LET s == strip(str)
    IN  IF s # <<>> /\ s[1] \in {"+", "-"} THEN Tail(s) ELSE s

\* whether int(str) returns: digits, with single underscores between them;
\* otherwise it raises ValueError
int_ok(str) ==
    LET body == IntBody(str)
    IN  /\ body # <<>>
        /\ \A i \in 1..Len(body) : body[i] \in DigitSet \cup {"_"}
        /\ body[1] # "_" /\ body[Len(body)] # "_"
        /\ \A i \in 1..(Len(body) - 1) : ~(body[i] = "_" /\ body[i + 1] = "_")

\* int(str), when it returns
int(str) ==
    LET s == strip(str)
        body == IntBody(str)
        ds == [k \in 1..Cardinality({i \in 1..Len(body) : body[i] # "_"}) |->
                 body[CHOOSE i \in 1..Len(body) :
                        body[i] # "_" /\ Cardinality({j \in 1..i : body[j] # "_"}) = k]]
    IN  IF s[1] = "-" THEN 0 - DigitsValue(ds) ELSE DigitsValue(ds)

\* s.replace(c, '') for one character c
remove_char(s, c) == join(<<>>, split_char(s, c))

\* parse_confidence without the clamp to 0..100
parse_confidence_unclamped(confidence_str) ==
    IF confidence_str = <<>> THEN 50
    ELSE LET clean_str == strip(remove_char(confidence_str, "%"))
         IN  IF ~int_ok(clean_str) THEN 50 ELSE int(clean_str)

parse_confidence(confidence_str) ==
    IF confidence_str = <<>> THEN 50
    ELSE LET clean_str == strip(remove_char(confidence_str, "%"))
             confidence == int(clean_str)
         IN  IF ~int_ok(clean_str) THEN 50
             ELSE IF confidence > 100 THEN 100
             ELSE IF confidence < 0 THEN 0
             ELSE confidence

\* list(range(a, b + 1))
range_list(a, b) == IF b < a THEN <<>> ELSE [k \in 1..(b - a + 1) |-> a + k - 1]

\* [x for x in xs if x.strip().isdigit()], then int(x.strip()) of each
RECURSIVE digit_pieces(_)
digit_pieces(xs) ==
    IF xs = <<>> THEN <<>>
    ELSE (IF isdigit(strip(xs[1])) THEN <<int(strip(xs[1]))>> ELSE <<>>) \o digit_pieces(Tail(xs))

parse_line_numbers(line_str) ==
    IF line_str = <<>> \/ strip(line_str) = <<>> THEN <<>>
    ELSE LET s == strip(line_str)
             parts == split_char(s, "-")
             ranged == contains(s, S("-")) /\ ~startswith(s, S("-")) /\ Len(parts) = 2
         IN  IF ranged
             THEN (IF ~int_ok(strip(parts[1])) \/ ~int_ok(strip(parts[2])) THEN <<>>
                   ELSE range_list(int(strip(parts[1])), int(strip(parts[2]))))
             ELSE IF contains(s, S(",")) THEN digit_pieces(split_char(s, ","))
             ELSE IF isdigit(s) THEN <<int(s)>>
             ELSE <<>>

\* IssueDTO.to_dict
IssueToDict(i) ==
    [issue |-> i.issue, severity |-> SeverityValue[i.severity], confidence |-> i.confidence,
     line_numbers |-> i.line_numbers, code |-> i.code, suggestion |-> i.suggestion,
     review_type |-> ReviewTypeValue[i.review_type], file_path |-> i.file_path]

\* variant: the optional file_path is not read back
IssueFromDict_without_file_path(d) ==
    [issue |-> d.issue, severity |-> SeverityOf(d.severity), confidence |-> d.confidence,
     line_numbers |-> d.line_numbers, code |-> d.code, suggestion |-> d.suggestion,
     review_type |-> ReviewTypeOf(d.review_type), file_path |-> None]

\* IssueDTO.from_dict
IssueFromDict(d) ==
    [issue |-> d.issue, severity |-> SeverityOf(d.severity), confidence |-> d.confidence,
     line_numbers |-> d.line_numbers, code |-> d.code, suggestion |-> d.suggestion,
     review_type |-> ReviewTypeOf(d.review_type), file_path |-> d.file_path]

\* FileAnalysisDTO.to_dict
FileToDict(f) ==
    [file_path |-> f.file_path,
     issues |-> [k \in 1..Len(f.issues) |-> IssueToDict(f.issues[k])],
     review_types_analyzed |->
        [k \in 1..Len(f.review_types_analyzed) |-> ReviewTypeValue[f.review_types_analyzed[k]]]]

\* FileAnalysisDTO.from_dict
FileFromDict(d) ==
    [file_path |-> d.file_path,
     issues |-> [k \in 1..Len(d.issues) |-> IssueFromDict(d.issues[k])],
     review_types_analyzed |->
        [k \in 1..Len(d.review_types_analyzed) |-> ReviewTypeOf(d.review_types_analyzed[k])]]

\* AnalysisResultDTO.to_dict
to_dict(r) ==
    [files |-> [k \in 1..Len(r.files) |-> FileToDict(r.files[k])],
     total_issues |-> r.total_issues,
     analysis_timestamp |-> r.analysis_timestamp,
     review_types |-> [k \in 1..Len(r.review_types) |-> ReviewTypeValue[r.review_types[k]]]]

\* AnalysisResultDTO.from_dict
from_dict(d) ==
    [files |-> [k \in 1..Len(d.files) |-> FileFromDict(d.files[k])],
     total_issues |-> d.total_issues,
     analysis_timestamp |-> d.analysis_timestamp,
     review_types |-> [k \in 1..Len(d.review_types) |-> ReviewTypeOf(d.review_types[k])]]

\* whether from_dict raises: a value that is no member's value
FromDictRaises(d) ==
    \/ \E k \in 1..Len(d.review_types) : Raised(ReviewTypeOf(d.review_types[k]))
    \/ \E f \in 1..Len(d.files) :
        \/ \E k \in 1..Len(d.files[f].review_types_analyzed) :
              Raised(ReviewTypeOf(d.files[f].review_types_analyzed[k]))
        \/ \E k \in 1..Len(d.files[f].issues) :
              \/ Raised(SeverityOf(d.files[f].issues[k].severity))
              \/ Raised(ReviewTypeOf(d.files[f].issues[k].review_type))

-----------------------------------------------------------------------------
(* aidiff/utils/dto_converter.py *)

security_keywords ==
    <<"security", "vulnerability", "authentication", "authorization", "xss", "sql injection",
      "csrf", "hardcoded", "password", "token", "api key">>

accessibility_keywords ==
    <<"accessibility", "aria", "alt text", "screen reader", "contrast", "keyboard", "focus",
      "wcag", "semantic">>

performance_keywords ==
    <<"performance", "slow", "optimize", "memory", "cpu", "cache", "async", "blocking",
      "inefficient">>

quality_keywords ==
    <<"quality", "code quality", "maintainability", "readability", "complexity",
      "best practice", "refactor", "clean code">>

\* any(keyword in issue_text for keyword in keywords)
any_keyword(issue_text, keywords) ==
    \E k \in 1..Len(keywords) : contains(issue_text, S(keywords[k]))

\* x in xs, for a list
in_list(x, xs) == \E k \in 1..Len(xs) : xs[k] = x

\* the member, or what raises when the class has no such attribute
_determine_review_type(issue, rts) ==
    LET issue_text == lower(issue.issue)
    IN  IF in_list("security", rts) /\ any_keyword(issue_text, security_keywords)
        THEN ReviewTypeAttr("ReviewType.SECURITY")
        ELSE IF in_list("accessibility", rts) /\ any_keyword(issue_text, accessibility_keywords)
        THEN ReviewTypeAttr("ReviewType.ACCESSIBILITY")
        ELSE IF in_list("performance", rts) /\ any_keyword(issue_text, performance_keywords)
        THEN ReviewTypeAttr("ReviewType.PERFORMANCE")
        ELSE IF in_list("quality", rts) /\ any_keyword(issue_text, quality_keywords)
        THEN ReviewTypeAttr("ReviewType.QUALITY")
        ELSE IF rts # <<>> /\ in_list("security", rts) THEN ReviewTypeAttr("ReviewType.SECURITY")
        ELSE IF rts # <<>> /\ in_list("accessibility", rts) THEN ReviewTypeAttr("ReviewType.ACCESSIBILITY")
        ELSE IF rts # <<>> /\ in_list("performance", rts) THEN ReviewTypeAttr("ReviewType.PERFORMANCE")
        ELSE IF rts # <<>> /\ in_list("quality", rts) THEN ReviewTypeAttr("ReviewType.QUALITY")
        ELSE ReviewTypeAttr("ReviewType.SECURITY")

\* x or default, for a str
or_else(x, default) == IF x = <<>> THEN default ELSE x

\* the IssueDTO, file_path not yet set by the caller
_convert_single_issue_to_dto(issue, rts) ==
    [issue        |-> or_else(issue.issue, S("Unknown issue")),
     severity     |-> parse_severity(or_else(issue.severity, S("medium"))),
     confidence   |-> parse_confidence(or_else(issue.confidence, S("50%"))),
     line_numbers |-> parse_line_numbers(or_else(issue.line_number, <<>>)),
     code         |-> or_else(issue.code, <<>>),
     suggestion   |-> or_else(issue.suggestion, S("No suggestion provided")),
     review_type  |-> _determine_review_type(issue, rts),
     file_path    |-> None]

\* [ReviewType(rt) for rt in review_types if rt in [e.value for e in ReviewType]]
RECURSIVE known_review_types(_)
known_review_types(rts) ==
    IF rts = <<>> THEN <<>>
    ELSE (IF \E m \in ReviewTypeMembers : ReviewTypeValue[m] = rts[1]
          THEN <<ReviewTypeOf(rts[1])>> ELSE <<>>) \o known_review_types(Tail(rts))

\* variant: a later issue of a file replaces the file's list
RECURSIVE GroupByFile_replacing(_, _, _)
GroupByFile_replacing(groups, iss, rts) ==
    IF iss = <<>> THEN groups
    ELSE LET file_path == or_else(iss[1].file, S("unknown_file"))
             dto_issue == [_convert_single_issue_to_dto(iss[1], rts) EXCEPT !.file_path = file_path]
             at == {g \in 1..Len(groups) : groups[g][1] = file_path}
             next == IF at = {}
                     THEN Append(groups, <<file_path, <<dto_issue>> >>)
                     ELSE [groups EXCEPT ![Min(at)] = <<file_path, <<dto_issue>> >>]
         IN  GroupByFile_replacing(next, Tail(iss), rts)

\* files_dict after the loop of lines 59-70: the groups as a list of
\* <<file_path, issues>> in order of first insertion
RECURSIVE GroupByFile(_, _, _)
GroupByFile(groups, iss, rts) ==
    IF iss = <<>> THEN groups
    ELSE LET file_path == or_else(iss[1].file, S("unknown_file"))
             dto_issue == [_convert_single_issue_to_dto(iss[1], rts) EXCEPT !.file_path = file_path]
             at == {g \in 1..Len(groups) : groups[g][1] = file_path}
             next == IF at = {}
                     THEN Append(groups, <<file_path, <<dto_issue>> >>)
                     ELSE [groups EXCEPT ![Min(at)] = <<file_path, Append(@[2], dto_issue)>>]
         IN  GroupByFile(next, Tail(iss), rts)

\* whether convert_issues_to_dto raises: some issue's review type does
ConvertRaises(iss, rts) ==
    \E k \in 1..Len(iss) : Raised(_determine_review_type(iss[k], rts))

\* DTOConverter.convert_issues_to_dto, when it returns
convert_issues_to_dto(iss, rts, now) ==
    IF iss = <<>>
    THEN [files |-> <<>>, total_issues |-> 0, analysis_timestamp |-> now,
          review_types |-> known_review_types(rts)]
    ELSE LET files_dict == GroupByFile(<<>>, iss, rts)
         IN  [files |-> [g \in 1..Len(files_dict) |->
                           [file_path |-> files_dict[g][1], issues |-> files_dict[g][2],
                            review_types_analyzed |-> known_review_types(rts)]],
              total_issues |-> Len(iss),
              analysis_timestamp |-> now,
              review_types |-> known_review_types(rts)]

-----------------------------------------------------------------------------
(* result_processor.py *)

\* the first index >= i where p occurs in s, or 0
find_from(s, p, i) ==
    LET at == {k \in i..(Len(s) - Len(p) + 1) : StartsAt(s, k, p)}
    IN  IF at = {} THEN 0 ELSE Min(at)

\* the group of r'\s*(.+?)(?=\n\*\*|\n---|$)' matched from index q on (DOTALL),
\* or None when nothing follows q: the white space is skipped, the value runs
\* to the first line break followed by '**' or '---', or to the end; when only
\* white space follows, the group is its last character
ValueFrom(s, q) ==
    LET rest == {k \in q..Len(s) : s[k] \notin WhiteSpace}
        w == Min(rest)
        stops == {e \in w..Len(s) :
                    \/ e = Len(s)
                    \/ e = Len(s) - 1 /\ s[Len(s)] = NL
                    \/ StartsAt(s, e + 1, S("\n**"))
                    \/ StartsAt(s, e + 1, S("\n---"))}
    IN  IF q > Len(s) THEN None
        ELSE IF rest = {} THEN <<s[Len(s)]>>
        ELSE SubSeq(s, w, Min(stops))

\* re.search(r'\*\*<Label>:\*\*\s*(.+?)(?=\n\*\*|\n---|$)', block, re.DOTALL):
\* group(1).strip(), or None without a match
search_field(block, label) ==
    LET prefix == markdown_prefix(label)
        p == find_from(block, prefix, 1)
    IN  IF p = 0 \/ ValueFrom(block, p + Len(prefix)) = None THEN None
        ELSE strip(ValueFrom(block, p + Len(prefix)))

\* re.search(r'\*\*Line Number.*?:\*\*\s*(.+?)(?=\n\*\*|\n---|$)', block, re.DOTALL)
search_line_number(block) ==
    LET p == find_from(block, S("**Line Number"), 1)
        c == IF p = 0 THEN 0 ELSE find_from(block, S(":**"), p + Len(S("**Line Number")))
    IN  IF c = 0 \/ ValueFrom(block, c + 3) = None THEN None
        ELSE strip(ValueFrom(block, c + 3))

\* re.search(r'###\s*<backtick>([^<backtick>]+)<backtick>', block): group(1), or None
search_file_header(block) ==
    LET hits == {p \in 1..Len(block) :
                    /\ StartsAt(block, p, S("###"))
                    /\ LET after == {k \in (p + 3)..Len(block) : block[k] \notin WhiteSpace}
                       IN  /\ after # {}
                           /\ block[Min(after)] = BT
                           /\ Min(after) + 1 <= Len(block)
                           /\ block[Min(after) + 1] # BT
                           /\ \E z \in (Min(after) + 2)..Len(block) : block[z] = BT}
        p0 == Min(hits)
        open == Min({k \in (p0 + 3)..Len(block) : block[k] \notin WhiteSpace})
        close == Min({z \in (open + 2)..Len(block) : block[z] = BT})
    IN  IF hits = {} THEN None ELSE SubSeq(block, open + 1, close - 1)

\* lines 167-172: the first requested type named in the block, else the first
\* requested type, else 'security'
BlockReviewType(block, rts) ==
    LET named == {k \in 1..Len(rts) : contains(lower(block), lower(S(rts[k])))}
    IN  IF named # {} THEN rts[Min(named)]
        ELSE IF rts # <<>> THEN rts[1]
        ELSE "security"

\* d.get(key, default) for a field that search_field may not have found
get_or(found, default) == IF found = None THEN default ELSE found

\* _parse_single_issue: <<the IssueDTO>>, or <<>> when it returns None (no Issue
\* label, or the exception of ReviewType(review_type) caught)
_parse_single_issue(block, rts, current_file) ==
    LET issue == search_field(block, "Issue")
        file == IF search_field(block, "File") # None THEN search_field(block, "File")
                ELSE IF current_file # None /\ current_file # <<>> THEN current_file
                ELSE None
    IN  IF issue = None THEN <<>>
        ELSE IF Raised(ReviewTypeOf(BlockReviewType(block, rts))) THEN <<>>
        ELSE <<[issue      |-> issue,
              severity     |-> parse_severity(get_or(search_field(block, "Severity"), S("Medium"))),
              confidence   |-> parse_confidence(get_or(search_field(block, "Confidence"), S("50%"))),
              line_numbers |-> parse_line_numbers(get_or(search_line_number(block), <<>>)),
              code         |-> get_or(search_field(block, "Code"), <<>>),
              suggestion   |-> get_or(search_field(block, "Suggestion"), S("No suggestion provided")),
              review_type  |-> ReviewTypeOf(BlockReviewType(block, rts)),
              file_path    |-> file]>>

\* lines 76-82: the response without a surrounding markdown fence
Unfenced(response) ==
    LET r0 == strip(response)
        r1 == IF startswith(r0, Fence3 \o S("markdown")) THEN DropFirst(r0, 11) ELSE r0
        r2 == IF startswith(r1, Fence3) THEN DropFirst(r1, 3) ELSE r1
    IN  IF endswith(r2, Fence3) THEN TakeFirst(r2, Len(r2) - 3) ELSE r2

\* [x.strip() for x in xs if x.strip()]
RECURSIVE stripped_nonempty(_)
stripped_nonempty(xs) ==
    IF xs = <<>> THEN <<>>
    ELSE (IF strip(xs[1]) # <<>> THEN <<strip(xs[1])>> ELSE <<>>) \o stripped_nonempty(Tail(xs))

\* lines 89-93: the stripped parts that hold an Issue or a File label
RECURSIVE labelled_parts(_)
labelled_parts(parts) ==
    IF parts = <<>> THEN <<>>
    ELSE (IF strip(parts[1]) # <<>>
             /\ (contains(strip(parts[1]), S("**Issue:**")) \/ contains(strip(parts[1]), S("**File:**")))
          THEN <<strip(parts[1])>> ELSE <<>>) \o labelled_parts(Tail(parts))

\* re.split(r'(?=\*\*Issue:\*\*)', response, flags=re.MULTILINE | re.IGNORECASE):
\* a cut before every '**issue:**', whatever its case
split_before_issue(response) ==
    LET low == lower(response)
        at == {k \in 1..Len(response) : StartsAt(low, k, S("**issue:**"))}
        n == Cardinality(at)
        kth(k) == CHOOSE c \in at : Cardinality({d \in at : d < c}) = k - 1
    IN  [k \in 1..(n + 1) |->
            SubSeq(response, IF k = 1 THEN 1 ELSE kth(k - 1), IF k = n + 1 THEN Len(response) ELSE kth(k) - 1)]

\* lines 84-99
ResponseBlocks(response) ==
    LET issue_blocks == labelled_parts(split_hyphens(response))
    IN  IF issue_blocks = <<>> THEN stripped_nonempty(split_before_issue(response))
        ELSE issue_blocks

\* lines 101-116: acc is the list of issues, current_file the last file header seen
RECURSIVE ParseBlocks(_, _, _, _)
ParseBlocks(blocks, rts, current_file, acc) ==
    IF blocks = <<>> THEN acc
    ELSE IF strip(blocks[1]) = <<>> THEN ParseBlocks(Tail(blocks), rts, current_file, acc)
    ELSE IF search_file_header(blocks[1]) # None
    THEN ParseBlocks(Tail(blocks), rts, search_file_header(blocks[1]), acc)
    ELSE ParseBlocks(Tail(blocks), rts, current_file,
                     acc \o _parse_single_issue(blocks[1], rts, current_file))

_parse_issues_from_response(response, rts) ==
    ParseBlocks(ResponseBlocks(Unfenced(response)), rts, None, <<>>)

\* variant: no match by file name, the first file at once
_find_matching_file_first(issue_file, available_files) ==
    IF issue_file = None \/ issue_file = <<>> THEN None
    ELSE IF in_list(issue_file, available_files) THEN issue_file
    ELSE IF available_files # <<>> THEN available_files[1]
    ELSE None

\* _find_matching_file: the path, or None
_find_matching_file(issue_file, available_files) ==
    IF issue_file = None \/ issue_file = <<>> THEN None
    ELSE IF in_list(issue_file, available_files) THEN issue_file
    ELSE LET parts == split_char(issue_file, "/")
             issue_basename == parts[Len(parts)]
             hits == {k \in 1..Len(available_files) :
                        \/ endswith(available_files[k], S("/") \o issue_basename)
                        \/ available_files[k] = issue_basename}
         IN  IF hits # {} THEN available_files[Min(hits)]
             ELSE IF available_files # <<>> THEN available_files[1]
             ELSE None

\* lines 34-36: files_dict as a list of <<file_path, issues>>, a key once
RECURSIVE EmptyGroups(_, _)
EmptyGroups(files, groups) ==
    IF files = <<>> THEN groups
    ELSE EmptyGroups(Tail(files),
                     IF \E g \in 1..Len(groups) : groups[g][1] = files[1]
                     THEN [g \in 1..Len(groups) |->
                             IF groups[g][1] = files[1] THEN <<files[1], <<>> >> ELSE groups[g]]
                     ELSE Append(groups, <<files[1], <<>> >>))

\* the file an issue is assigned to (lines 40-47), or None when it is dropped
AssignedFile(issue, files) ==
    IF issue.file_path # None /\ issue.file_path # <<>> /\ in_list(issue.file_path, files)
    THEN issue.file_path
    ELSE LET matched_file == _find_matching_file(issue.file_path, files)
         IN  IF matched_file # None /\ matched_file # <<>> THEN matched_file ELSE None

\* lines 38-47
RECURSIVE AssignIssues(_, _, _)
AssignIssues(groups, iss, files) ==
    IF iss = <<>> THEN groups
    ELSE LET target == AssignedFile(iss[1], files)
             issue == [iss[1] EXCEPT !.file_path = target]
         IN  AssignIssues(IF target = None THEN groups
                          ELSE [g \in 1..Len(groups) |->
                                  IF groups[g][1] = target
                                  THEN <<groups[g][1], Append(groups[g][2], issue)>>
                                  ELSE groups[g]],
                          Tail(iss), files)

\* sum(len(fa.issues) for fa in file_analyses)
RECURSIVE count_issues(_)
count_issues(files) ==
    IF files = <<>> THEN 0 ELSE Len(files[1].issues) + count_issues(Tail(files))

\* whether process_llm_response raises (line 51): a review type that is no
\* value of ReviewType
ProcessRaises(rts) == \E k \in 1..Len(rts) : Raised(ReviewTypeOf(rts[k]))

\* LLMResultProcessor.process_llm_response, when it returns
process_llm_response(llm_response, rts, files, now) ==
    LET parsed == _parse_issues_from_response(llm_response, rts)
        files_dict == AssignIssues(EmptyGroups(files, <<>>), parsed, files)
        review_type_enums == [k \in 1..Len(rts) |-> ReviewTypeOf(rts[k])]
        file_analyses == [g \in 1..Len(files_dict) |->
                            [file_path |-> files_dict[g][1], issues |-> files_dict[g][2],
                             review_types_analyzed |-> review_type_enums]]
    IN  [files |-> file_analyses,
         total_issues |-> count_issues(file_analyses),
         analysis_timestamp |-> now,
         review_types |-> review_type_enums]

-----------------------------------------------------------------------------
(* the inputs *)

\* most chunks a response is made of
MaxChunks == 3

Sep == S("---")

\* the label values of well-formed blocks: the response of
\* test_parse_llm_output, and a second one whose file is a bare name
LabelledFields ==
    {[issue |-> S("Hardcoded secret"), file |-> S("foo.py"), severity |-> S("High"),
      confidence |-> S("95%"), suggestion |-> S("Remove secret")],
     [issue |-> S("Missing alt text"), file |-> S("app.js "), severity |-> S("minor"),
      confidence |-> S(" 80%"), suggestion |-> S("Add alt")]}

\* the block of the five bold labels, one to a line
Block(f) ==
    S("\n**Issue:** ") \o f.issue \o S("\n**File:** ") \o f.file
        \o S("\n**Severity:** ") \o f.severity \o S("\n**Confidence:** ") \o f.confidence
        \o S("\n**Suggestion:** ") \o f.suggestion \o S("\n")

\* other things a model answers with: a description that is a label name,
\* an issue that names no file, and text without any label
Chunks ==
    {Sep} \cup {Block(f) : f \in LabelledFields}
        \cup {S("\n**Issue:** Suggestion\n**File:** foo.py\n"),
              S("\n**Issue:** SQL injection\n**Line Number:** 3-5\n"),
              S("\nnoise\n")}

RECURSIVE ChunkSeqs(_)
ChunkSeqs(n) ==
    IF n = 0 THEN {<<>>}
    ELSE ChunkSeqs(n - 1) \cup {x \o c : x \in ChunkSeqs(n - 1), c \in Chunks}

Responses == ChunkSeqs(MaxChunks)

\* most chunks of a response given to the legacy processor
MaxLegacyChunks == 2

LegacyResponses == ChunkSeqs(MaxLegacyChunks)

ReviewTypeLists == {<<>>, <<"security">>, <<"accessibility", "security">>, <<"quality">>,
                    <<"performance", "quality">>}

FileLists == {<<>>, <<S("src/app.js")>>, <<S("foo.py"), S("lib/app.js"), S("src/app.js")>>}

\* no readable .gitignore, an empty one, one without and one with .env
GitignoreFiles == {None, <<>>, S("node_modules\n"), S("node_modules\n.env\n")}

Timestamps == {S("2024-01-01T00:00:00")}

\* the values a reviewed record may hold in its description, code and suggestion
Descriptions ==
    {S("API key found"), S("Hardcoded password found"), S("Use <label> for inputs"),
     S("!!!"), S("Code"), S(".env not added to .gitignore"),
     S("Secrets file NOT ADDED TO the ignore list")}

CodeSnippets ==
    {<<>>, S("API_KEY = 'your_api_key_here'"), S("password = 'secret123'"), S("api_key"),
     S("<token>"), S("<b>Bold</b> text"), S("a < b and b > c"), S("key = Monkey()"),
     S("PASSWORD = 'ChangeMe'")}

Suggestions ==
    {<<>>, S("Use environment variables"), S("See example.com"), S("<placeholder>")}

RecordFiles == {S("config.py"), S(".gitignore"), S("docs/.gitignore")}

\* the response that holds one record with these values
RecordBlock(d, c, g, f) ==
    S("**Issue:** ") \o d \o S("\n**File:** ") \o f
        \o (IF c = <<>> THEN <<>> ELSE S("\n**Code:** ") \o c)
        \o (IF g = <<>> THEN <<>> ELSE S("\n**Suggestion:** ") \o g)

RecordResponses ==
    {RecordBlock(d, c, g, f) : d \in Descriptions, c \in CodeSnippets, g \in Suggestions,
                               f \in RecordFiles}

-----------------------------------------------------------------------------
(* the runs *)

\* the review of a diff: files_analyzed are the files the diff names
\* no command line was read
NoRun ==
    /\ config = Nothing
    /\ dry_run = FALSE
    /\ llm_calls = 0
    /\ printed = <<>>

Init ==
    /\ pc = "start"
    /\ output = <<>>
    /\ issues = <<>>
    /\ gitignore_file = None
    /\ gitignore_content = <<>>
    /\ filtered = <<>>
    /\ review_types = <<>>
    /\ files_analyzed \in FileLists
    /\ result = Nothing
    /\ error = "none"
    /\ data = Nothing
    /\ restored = Nothing
    /\ fn = "none"
    /\ arg = Nothing
    /\ ret = Nothing
    /\ NoRun

\* reviewer.py line 85
ParseLLMOutput ==
    /\ pc = "start"
    /\ \E out \in Responses :
        /\ output' = out
        /\ issues' = parse_llm_output(out)
    /\ pc' = "parsed"
    /\ UNCHANGED call_vars
    /\ UNCHANGED run_vars
    /\ UNCHANGED gitignore_file
    /\ UNCHANGED <<gitignore_content, filtered, review_types, files_analyzed, result, error,
                   data, restored>>

\* reviewer.py line 86: the filter reads .gitignore, then goes through the issues
FilterFalsePositives ==
    /\ pc = "parsed"
    /\ gitignore_content' = _read_gitignore(gitignore_file)
    /\ filtered' = filter_false_positives(issues, _read_gitignore(gitignore_file))
    /\ issues' = IssuesAfterFilter(issues, _read_gitignore(gitignore_file))
    /\ pc' = "filtered"
    /\ UNCHANGED call_vars
    /\ UNCHANGED run_vars
    /\ UNCHANGED gitignore_file
    /\ UNCHANGED <<output, review_types, files_analyzed, result, error, data, restored>>

\* reviewer.py lines 89-101, output_format json
ConvertIssuesToDTO ==
    /\ pc = "filtered"
    /\ \E rts \in ReviewTypeLists, now \in Timestamps :
        /\ review_types' = rts
        /\ IF ConvertRaises(filtered, rts)
           THEN /\ error' = AttributeError
                /\ result' = result
                /\ pc' = "error"
           ELSE /\ result' = Some(convert_issues_to_dto(filtered, rts, now))
                /\ error' = error
                /\ pc' = "converted"
    /\ UNCHANGED call_vars
    /\ UNCHANGED run_vars
    /\ UNCHANGED gitignore_file
    /\ UNCHANGED <<output, issues, gitignore_content, filtered, files_analyzed, data, restored>>

\* main.py lines 171-172
ProcessLLMResponse ==
    /\ pc = "start"
    /\ \E out \in LegacyResponses, rts \in ReviewTypeLists, now \in Timestamps :
        /\ output' = out
        /\ review_types' = rts
        /\ IF ProcessRaises(rts)
           THEN /\ error' = ValueError
                /\ result' = result
                /\ pc' = "error"
           ELSE /\ result' = Some(process_llm_response(out, rts, files_analyzed, now))
                /\ error' = error
                /\ pc' = "processed"
    /\ UNCHANGED call_vars
    /\ UNCHANGED run_vars
    /\ UNCHANGED gitignore_file
    /\ UNCHANGED <<issues, gitignore_content, filtered, files_analyzed, data, restored>>

\* result.to_dict() (to_json)
ToDict ==
    /\ pc \in {"converted", "processed"}
    /\ data' = Some(to_dict(result[1]))
    /\ pc' = "serialized"
    /\ UNCHANGED call_vars
    /\ UNCHANGED run_vars
    /\ UNCHANGED gitignore_file
    /\ UNCHANGED <<output, issues, gitignore_content, filtered, review_types, files_analyzed,
                   result, error, restored>>

\* AnalysisResultDTO.from_dict(data) (from_json)
FromDict ==
    /\ pc = "serialized"
    /\ IF FromDictRaises(data[1])
       THEN /\ error' = ValueError
            /\ restored' = restored
            /\ pc' = "error"
       ELSE /\ restored' = Some(from_dict(data[1]))
            /\ error' = error
            /\ pc' = "restored"
    /\ UNCHANGED call_vars
    /\ UNCHANGED run_vars
    /\ UNCHANGED gitignore_file
    /\ UNCHANGED <<output, issues, gitignore_content, filtered, review_types, files_analyzed,
                   result, data>>

Next ==
    \/ ParseLLMOutput
    \/ FilterFalsePositives
    \/ ConvertIssuesToDTO
    \/ ProcessLLMResponse
    \/ ToDict
    \/ FromDict

Spec == Init /\ [][Next]_vars

\* the filter alone, on the record parsed from a one-block response
InitFilter ==
    /\ pc = "parsed"
    /\ output \in RecordResponses
    /\ issues = parse_llm_output(output)
    /\ gitignore_file \in GitignoreFiles
    /\ gitignore_content = <<>>
    /\ filtered = <<>>
    /\ review_types = <<>>
    /\ files_analyzed = <<>>
    /\ result = Nothing
    /\ error = "none"
    /\ data = Nothing
    /\ restored = Nothing
    /\ fn = "none"
    /\ arg = Nothing
    /\ ret = Nothing
    /\ NoRun

SpecFilter == InitFilter /\ [][FilterFalsePositives]_vars

-----------------------------------------------------------------------------
(* providers/base.py, aidiff/providers: generate_response *)

\* what one call of a vendor's API does: it gives a text, or no text, or it
\* raises an exception, which may carry one of the flags is_quota_limit,
\* is_network_issue, is_server_issue
ApiRaises == <<"<Exception>">>

ApiRaisesFlagged == <<"<Exception with a flag>">>

ApiTexts == {<<>>, S(" \n"), S("**Issue:** Hardcoded secret")}

ApiOutcomes == ApiTexts \cup {None, ApiRaises, ApiRaisesFlagged}

\* how a call of generate_response ends
Returns(value) == <<"return", value>>

Raises(exception) == <<"raise", exception>>

\* the loop of LLMProvider.generate_response over models_to_try, from the k-th
RECURSIVE TryModels(_, _)
TryModels(outcomes, k) ==
    IF k > Len(outcomes) THEN Raises("RuntimeError")
    ELSE IF outcomes[k] = ApiRaisesFlagged THEN Raises("Exception with a flag")
    ELSE IF outcomes[k] = ApiRaises THEN TryModels(outcomes, k + 1)
    ELSE IF outcomes[k] # None /\ outcomes[k] # <<>> /\ strip(outcomes[k]) # <<>>
    THEN Returns(outcomes[k])
    ELSE TryModels(outcomes, k + 1)

\* providers/base.py: outcomes[k] is what call_api does for the k-th model
LLMProvider_generate_response(api_key_valid, outcomes) ==
    IF ~api_key_valid THEN Raises("RuntimeError") ELSE TryModels(outcomes, 1)

\* the loop of OpenAIProvider.generate_response over models, from the k-th;
\* content.strip() raises AttributeError when the content is None
RECURSIVE TryOpenAIModels(_, _)
TryOpenAIModels(outcomes, k) ==
    IF k > Len(outcomes) THEN Raises("LLMError")
    ELSE IF outcomes[k] \in {ApiRaises, ApiRaisesFlagged, None} THEN TryOpenAIModels(outcomes, k + 1)
    ELSE IF strip(outcomes[k]) = <<>> THEN TryOpenAIModels(outcomes, k + 1)
    ELSE Returns(outcomes[k])

\* aidiff/providers/openai_provider.py: outcomes[k] is what
\* openai.chat.completions.create gives as the content for the k-th model
OpenAIProvider_generate_response(outcomes) == TryOpenAIModels(outcomes, 1)

\* aidiff/providers/anthropic_provider.py: outcome is what
\* client.messages.create gives as response.content[0].text
AnthropicProvider_generate_response(outcome) ==
    IF outcome \in {ApiRaises, ApiRaisesFlagged} THEN Raises("LLMError")
    ELSE Returns(outcome)

\* most models a provider tries
MaxModels == 2

\* what the API does for each model tried: one model when the caller names
\* it, the default models otherwise
OutcomeLists == UNION {[1..n -> ApiOutcomes] : n \in 1..MaxModels}

-----------------------------------------------------------------------------
(* providers/chatgpt.py, providers/gemini.py, providers/claude.py *)

Providers == {"ChatGPT", "Gemini", "Claude"}

\* get_default_models(), in order of preference
get_default_models(provider) ==
    CASE provider = "ChatGPT" -> <<S("gpt-3.5-turbo"), S("gpt-4-turbo")>>
      [] provider = "Gemini" -> <<S("gemini-2.0-flash"), S("gemini-1.5-flash")>>
      [] provider = "Claude" -> <<S("claude-3-5-sonnet-20241022"), S("claude-3-haiku-20240307")>>

\* what the vendor does on one request: it refuses for rate or quota, times
\* out, cannot be connected to, fails with a 5xx status, refuses for another
\* reason (an unknown model), answers with a blank text or with a text
VendorOutcomes ==
    {"rate limit", "timeout", "connection error", "server error", "other error", "blank", "text"}

ResponseText == S("**Issue:** Hardcoded secret")

\* the exception call_api raises, with the attributes set on it
FlaggedError(flags) == [type |-> "RuntimeError", flags |-> flags]

\* variant: the flags of claude.py under the names base.py tests
claude_flags_as_tested(vendor) ==
    CASE vendor = "rate limit" -> {"is_quota_limit"}
      [] vendor = "timeout" -> {"is_network_issue"}
      [] vendor = "connection error" -> {"is_network_issue"}
      [] vendor = "server error" -> {"is_server_issue"}
      [] OTHER -> {}

\* claude.py lines 53-69: the attributes set on the error of a failed request
claude_flags(vendor) ==
    CASE vendor = "rate limit" -> {"is_quota_limit"}
      [] vendor = "timeout" -> {"is_timeout"}
      [] vendor = "server error" -> {"is_server_error"}
      [] OTHER -> {}

\* chatgpt.py lines 46-62 and gemini.py lines 55-80
flags_of(provider, vendor) ==
    IF provider = "Claude" THEN claude_flags(vendor)
    ELSE CASE vendor = "rate limit" -> {"is_quota_limit"}
           [] vendor = "timeout" -> {"is_network_issue"}
           [] vendor = "connection error" -> {"is_network_issue"}
           [] vendor = "server error" -> {"is_server_issue"}
           [] OTHER -> {}

\* call_api: the text, or the error raised; a blank text raises ValueError
\* inside the try block, which leaves as an error without attributes
call_api(provider, vendor) ==
    IF vendor = "text" THEN Returns(ResponseText) ELSE Raises(FlaggedError(flags_of(provider, vendor)))

\* the attributes on which base.py raises at once (lines 50-57)
StopFlags == {"is_quota_limit", "is_network_issue", "is_server_issue"}

\* base.py lines 41-61: the loop from the k-th model; vendor[k] is what the
\* vendor does when asked with that model; tried are the models asked
RECURSIVE try_models(_, _, _, _)
try_models(provider, models_to_try, vendor, k) ==
    IF k > Len(models_to_try)
    THEN [result |-> Raises(FlaggedError({})), tried |-> models_to_try]
    ELSE LET response == call_api(provider, vendor[k])
         IN  IF response[1] = "return" /\ strip(response[2]) # <<>>
             THEN [result |-> response, tried |-> SubSeq(models_to_try, 1, k)]
             ELSE IF response[1] = "raise" /\ response[2].flags \cap StopFlags # {}
             THEN [result |-> response, tried |-> SubSeq(models_to_try, 1, k)]
             ELSE try_models(provider, models_to_try, vendor, k + 1)

\* base.py line 38
models_to_try(provider, model) == IF model # None THEN <<model>> ELSE get_default_models(provider)

\* LLMProvider.generate_response of a provider
generate_response(provider, api_key_valid, model, vendor) ==
    IF ~api_key_valid THEN [result |-> Raises(FlaggedError({})), tried |-> <<>>]
    ELSE try_models(provider, models_to_try(provider, model), vendor, 1)

-----------------------------------------------------------------------------
(* aidiff/formatters/markdown_formatter.py *)

\* the markers, as the code points of their text
LockMarker == <<"U+1F512">>

WarningMarker == <<"U+26A0", "U+FE0F">>

CheckMarker == <<"U+2705">>

QuestionMarker == <<"U+2753">>

\* self.emoji_map
emoji_map ==
    (S("critical") :> LockMarker) @@ (S("high") :> WarningMarker)
        @@ (S("medium") :> WarningMarker) @@ (S("low") :> CheckMarker)

\* the marker looked up with the severity as it is written
emoji_of_written(severity) ==
    IF severity \in DOMAIN emoji_map THEN emoji_map[severity] ELSE QuestionMarker

\* lines 44-45: self.emoji_map.get(severity.lower() if severity else '', unknown)
emoji_of(severity) ==
    IF lower(severity) \in DOMAIN emoji_map THEN emoji_map[lower(severity)] ELSE QuestionMarker

\* lines 34-36: grouped[key].append(issue); a dict keeps its keys in the order
\* of their first insertion
RECURSIVE grouped_by_file(_, _)
grouped_by_file(iss, grouped) ==
    IF iss = <<>> THEN grouped
    ELSE LET issue == Head(iss)
             at == {k \in 1..Len(grouped) : grouped[k].key = issue.file}
         IN  grouped_by_file(Tail(iss),
                 IF at = {} THEN Append(grouped, [key |-> issue.file, issues |-> <<issue>>])
                 ELSE [grouped EXCEPT ![Min(at)].issues = Append(@, issue)])

\* lines 43-57: the output lines of one issue
issue_lines(issue) ==
    <<emoji_of(issue.severity) \o S(" **Issue:** ") \o issue.issue,
      S("   **Severity:** ") \o issue.severity,
      S("   **Confidence:** ") \o issue.confidence>>
        \o (IF issue.line_number # <<>>
            THEN <<S("   **Line Number:** ") \o issue.line_number>> ELSE <<>>)
        \o (IF issue.code # <<>> THEN <<S("   **Code:** ") \o issue.code>> ELSE <<>>)
        \o <<S("   **Suggestion:** ") \o issue.suggestion \o <<NL>>>>

RECURSIVE issues_lines(_)
issues_lines(group_issues) ==
    IF group_issues = <<>> THEN <<>>
    ELSE issue_lines(Head(group_issues)) \o issues_lines(Tail(group_issues))

\* lines 40-57: the output lines of the groups
RECURSIVE groups_lines(_)
groups_lines(grouped) ==
    IF grouped = <<>> THEN <<>>
    ELSE <<S("\n### ") \o <<BT>> \o Head(grouped).key \o <<BT>> \o <<NL>>>>
             \o issues_lines(Head(grouped).issues)
             \o groups_lines(Tail(grouped))

\* MarkdownFormatter.format_issues(issues), group_by = 'file'
format_issues(iss) == join(<<NL>>, groups_lines(grouped_by_file(iss, <<>>)))

-----------------------------------------------------------------------------
(* calls of one function: the normalizers, the review type, the providers *)

\* the variables of a review run
review_vars == <<pc, output, issues, gitignore_file, gitignore_content, filtered, review_types,
                 files_analyzed, result, error, data, restored>>

\* the values of ReviewMode (core/models.py), in the order of the CLI choices
Categories == <<"security", "accessibility", "performance", "quality">>

\* the requests of up to two categories, and the request of all four
RequestLists ==
    {<<>>, Categories}
        \cup {<<Categories[a]>> : a \in 1..4}
        \cup {<<Categories[p[1]], Categories[p[2]]>> :
                p \in {q \in (1..4) \X (1..4) : q[1] # q[2]}}

\* descriptions with a keyword of one category, of two, and of none
IssueTexts ==
    {S("Hardcoded secret"), S("Missing alt text"), S("Slow loop"), S("Refactor this"),
     S("SQL Injection in the CACHE layer"), S("Unused variable")}

\* longest confidence string
MaxConfidenceLen == 3

ConfidenceChars == {"1", "0", "5", "%", " ", "-", "+", "_", "x"}

\* longest line number string
MaxLineLen == 4

LineChars == {"1", "0", "2", "-", ",", " ", "x"}

\* the strings of up to n characters of an alphabet
RECURSIVE Strings(_, _)
Strings(chars, n) ==
    IF n = 0 THEN {<<>>}
    ELSE Strings(chars, n - 1) \cup {Append(x, c) : x \in Strings(chars, n - 1), c \in chars}

ConfidenceStrings == Strings(ConfidenceChars, MaxConfidenceLen)

LineStrings == Strings(LineChars, MaxLineLen)

SeverityStrings ==
    {<<>>, S("critical"), S("high"), S("medium"), S("moderate"), S("low"), S("minor"),
     S("High"), S(" HIGH "), S("Critical\n"), S("LOW"), S("Minor "), S("urgent"), S("med"),
     S("high risk")}

\* most issues given to a formatter
MaxFormatted == 2

FormattedSeverities ==
    {<<>>, S("critical"), S("High"), S("medium"), S("low"), S("urgent")}

\* the issues a formatter is given: two files, the severities, with and
\* without a line number and a code
FormattedIssues ==
    {Issue([issue |-> S("Hardcoded secret"), file |-> f, severity |-> v,
            confidence |-> S("95%"), suggestion |-> S("Remove secret"),
            line_number |-> o[1], code |-> o[2]]) :
        f \in {S("foo.py"), S("src/app.js")}, v \in FormattedSeverities,
        o \in {<<<<>>, <<>>>>, <<S("10"), <<>>>>, <<<<>>, S("x = 1")>>, <<S("10"), S("x = 1")>>}}

FormattedLists == UNION {[1..n -> FormattedIssues] : n \in 0..MaxFormatted}

InitCall ==
    /\ pc = "start"
    /\ output = <<>>
    /\ issues = <<>>
    /\ gitignore_file = None
    /\ gitignore_content = <<>>
    /\ filtered = <<>>
    /\ review_types = <<>>
    /\ files_analyzed = <<>>
    /\ result = Nothing
    /\ error = "none"
    /\ data = Nothing
    /\ restored = Nothing
    /\ fn = "none"
    /\ arg = Nothing
    /\ ret = Nothing
    /\ NoRun

\* DTOConverter._determine_review_type(issue, review_types)
DetermineReviewType ==
    /\ fn = "none"
    /\ \E d \in IssueTexts, rts \in RequestLists :
        /\ arg' = [issue |-> d, review_types |-> rts]
        /\ ret' = _determine_review_type(Issue([issue |-> d, file |-> S("N/A")]), rts)
    /\ fn' = "_determine_review_type"
    /\ UNCHANGED review_vars
    /\ UNCHANGED run_vars

\* result_processor.py lines 167-182: the review type of a block with one label
BlockReviewTypeOf ==
    /\ fn = "none"
    /\ \E d \in IssueTexts, rts \in RequestLists :
        /\ arg' = [issue |-> d, review_types |-> rts]
        /\ ret' = ReviewTypeOf(BlockReviewType(S("**Issue:** ") \o d, rts))
    /\ fn' = "_parse_single_issue"
    /\ UNCHANGED review_vars
    /\ UNCHANGED run_vars

ParseConfidence ==
    /\ fn = "none"
    /\ \E x \in ConfidenceStrings :
        /\ arg' = x
        /\ ret' = parse_confidence(x)
    /\ fn' = "parse_confidence"
    /\ UNCHANGED review_vars
    /\ UNCHANGED run_vars

ParseLineNumbers ==
    /\ fn = "none"
    /\ \E x \in LineStrings :
        /\ arg' = x
        /\ ret' = parse_line_numbers(x)
    /\ fn' = "parse_line_numbers"
    /\ UNCHANGED review_vars
    /\ UNCHANGED run_vars

ParseSeverity ==
    /\ fn = "none"
    /\ \E x \in SeverityStrings :
        /\ arg' = x
        /\ ret' = parse_severity(x)
    /\ fn' = "parse_severity"
    /\ UNCHANGED review_vars
    /\ UNCHANGED run_vars

BaseGenerateResponse ==
    /\ fn = "none"
    /\ \E api_key_valid \in BOOLEAN, outcomes \in OutcomeLists :
        /\ arg' = [api_key_valid |-> api_key_valid, outcomes |-> outcomes]
        /\ ret' = LLMProvider_generate_response(api_key_valid, outcomes)
    /\ fn' = "LLMProvider.generate_response"
    /\ UNCHANGED review_vars
    /\ UNCHANGED run_vars

OpenAIGenerateResponse ==
    /\ fn = "none"
    /\ \E outcomes \in OutcomeLists :
        /\ arg' = [outcomes |-> outcomes]
        /\ ret' = OpenAIProvider_generate_response(outcomes)
    /\ fn' = "OpenAIProvider.generate_response"
    /\ UNCHANGED review_vars
    /\ UNCHANGED run_vars

AnthropicGenerateResponse ==
    /\ fn = "none"
    /\ \E outcome \in ApiTexts \cup {ApiRaises, ApiRaisesFlagged} :
        /\ arg' = [outcomes |-> <<outcome>>]
        /\ ret' = AnthropicProvider_generate_response(outcome)
    /\ fn' = "AnthropicProvider.generate_response"
    /\ UNCHANGED review_vars
    /\ UNCHANGED run_vars

FormatIssues ==
    /\ fn = "none"
    /\ \E xs \in FormattedLists :
        /\ arg' = xs
        /\ ret' = format_issues(xs)
    /\ fn' = "MarkdownFormatter.format_issues"
    /\ UNCHANGED review_vars
    /\ UNCHANGED run_vars

\* most lines of a response given to the splitter
MaxSplitLines == 3

\* lines of a response: the Issue label bold, plain, indented and inside a
\* line, another label, text and an empty line
SplitLines ==
    {S("**Issue:** A"), S("Issue: B"), S("  **Issue:** C"), S("See Issue: 4"),
     S("**File:** f.py"), S("noise"), <<>>}

\* the responses of up to MaxSplitLines lines, with and without a final line break
SplitResponses ==
    UNION {{join(<<NL>>, ls) \o e : ls \in [1..n -> SplitLines], e \in {<<>>, <<NL>>}} :
              n \in 0..MaxSplitLines}

\* parse_llm_output lines 36-57 and the issues it returns for them
SplitIssueBlocks ==
    /\ fn = "none"
    /\ \E out \in SplitResponses :
        /\ arg' = out
        /\ ret' = [issue_blocks |-> IssueBlocks(out), issues |-> parse_llm_output(out)]
    /\ fn' = "IssueParser.parse_llm_output"
    /\ UNCHANGED review_vars
    /\ UNCHANGED run_vars

\* most lines of the code written in a block
MaxCodeLines == 2

\* lines of code: plain, indented, and one that looks like a label
CodeLines == {S("x = 1"), S("  y = 2"), S("Issue: x")}

CodeBodies == UNION {[1..n -> CodeLines] : n \in 1..MaxCodeLines}

\* the ways a Code value is written: without a fence; fence, code and fence on
\* the label line; the opening fence, with or without a language tag, on the
\* label line or on the next one, the closing fence on a line of its own or
\* at the end of the last code line
WrittenCodes ==
    {[layout |-> "unfenced", fence |-> <<>>, tag |-> <<>>, lines |-> ls, close |-> "none"] :
        ls \in CodeBodies}
    \cup {[layout |-> "inline", fence |-> f, tag |-> <<>>, lines |-> <<l>>, close |-> "end"] :
             f \in {Fence3, Fence2}, l \in CodeLines}
    \cup {[layout |-> lay, fence |-> f, tag |-> t, lines |-> ls, close |-> c] :
             lay \in {"label", "next"}, f \in {Fence3, Fence2}, t \in {<<>>, S("python")},
             ls \in CodeBodies, c \in {"own", "end"}}

\* the text written after the Code label
CodeText(c) ==
    CASE c.layout = "unfenced" -> S(" ") \o join(<<NL>>, c.lines)
      [] c.layout = "inline" -> S(" ") \o c.fence \o c.lines[1] \o c.fence
      [] OTHER ->
            (IF c.layout = "label" THEN S(" ") ELSE <<NL>>) \o c.fence \o c.tag \o <<NL>>
                \o join(<<NL>>, c.lines) \o (IF c.close = "own" THEN <<NL>> ELSE <<>>) \o c.fence

\* the values written after the six other labels, on one line and on two
WrittenValues ==
    {[Issue |-> S("Hardcoded secret"), File |-> S("foo.py"), Severity |-> S("High"),
      Confidence |-> S("95%"), Suggestion |-> S("Remove secret"), LineNumber |-> S("12")],
     [Issue |-> S("Hardcoded secret\n  in the config"), File |-> S("foo.py"),
      Severity |-> S("High"), Confidence |-> S("95%"),
      Suggestion |-> S("Remove secret\nand rotate it"), LineNumber |-> S("12-14")]}

\* the orders of the seven labels: the prompt's, Code first, Code in the middle
LabelOrders ==
    {<<"Issue", "File", "Severity", "Confidence", "Suggestion", "Line Number", "Code">>,
     <<"Code", "Issue", "File", "Line Number", "Severity", "Confidence", "Suggestion">>,
     <<"File", "Line Number", "Code", "Suggestion", "Issue", "Confidence", "Severity">>}

WrittenBlocks == [order : LabelOrders, values : WrittenValues, code : WrittenCodes]

\* the text written after label f in block w
WrittenText(w, f) ==
    CASE f = "Code" -> CodeText(w.code)
      [] f = "Issue" -> S(" ") \o w.values.Issue
      [] f = "File" -> S(" ") \o w.values.File
      [] f = "Severity" -> S(" ") \o w.values.Severity
      [] f = "Confidence" -> S(" ") \o w.values.Confidence
      [] f = "Suggestion" -> S(" ") \o w.values.Suggestion
      [] f = "Line Number" -> S(" ") \o w.values.LineNumber

\* the block: each bold label followed by its text, one after the other
RECURSIVE BlockText(_, _)
BlockText(w, i) ==
    IF i > Len(w.order) THEN <<>>
    ELSE markdown_prefix(w.order[i]) \o WrittenText(w, w.order[i]) \o <<NL>> \o BlockText(w, i + 1)

\* parse_llm_output line 64, on the trimmed block (line 60)
ParseIssueBlock ==
    /\ fn = "none"
    /\ \E w \in WrittenBlocks :
        /\ arg' = w
        /\ ret' = _parse_issue_block(strip(BlockText(w, 1)))
    /\ fn' = "IssueParser._parse_issue_block"
    /\ UNCHANGED review_vars
    /\ UNCHANGED run_vars

\* the spellings of the line-number label a model answers with
LineNumberLabels == {S("Line Number"), S("Line Numbers"), S("Line Number(s)")}

\* a block whose second line carries the line-number label, bold or plain
LineNumberBlock(label, bold) ==
    IF bold
    THEN S("**Issue:** SQL injection\n**") \o label \o S(":** 3-5\n**Severity:** High")
    ELSE S("Issue: SQL injection\n") \o label \o S(": 3-5\nSeverity: High")

\* _parse_issue_block on a block with one of the line-number labels
ParseLineNumberLabel ==
    /\ fn = "none"
    /\ \E label \in LineNumberLabels, bold \in BOOLEAN :
        /\ arg' = [label |-> label, bold |-> bold]
        /\ ret' = _parse_issue_block(LineNumberBlock(label, bold))
    /\ fn' = "IssueParser._parse_issue_block(Line Number)"
    /\ UNCHANGED review_vars
    /\ UNCHANGED run_vars

\* most issues given to the filter
MaxFiltered == 2

\* issues as a caller may build them: descriptions that are kept and dropped,
\* code that is empty, blank, padded and a placeholder
FilterIssues ==
    {[issue |-> d, file |-> S("config.py"), severity |-> S("High"), confidence |-> S("95%"),
      suggestion |-> S("Rotate it"), line_number |-> S("3"), code |-> c] :
        d \in {S("API key found"), S("Code"), S("Hardcoded password")},
        c \in {<<>>, S(" \n"), S(" x = 1"), S("<token>")}}

FilterLists == UNION {[1..n -> FilterIssues] : n \in 0..MaxFiltered}

\* filter_false_positives on a list, the list afterwards, and the filter
\* applied to its own result
FilterIssueList ==
    /\ fn = "none"
    /\ \E xs \in FilterLists, file \in {None, S("node_modules\n.env\n")} :
        /\ arg' = [issues |-> xs, gitignore_file |-> file]
        /\ ret' = [filtered |-> filter_false_positives(xs, _read_gitignore(file)),
                   issues   |-> IssuesAfterFilter(xs, _read_gitignore(file)),
                   again    |-> filter_false_positives(
                                    filter_false_positives(xs, _read_gitignore(file)),
                                    _read_gitignore(file))]
    /\ fn' = "IssueFilter.filter_false_positives"
    /\ UNCHANGED review_vars
    /\ UNCHANGED run_vars

\* the model a caller names, if any
GivenModels == {None, S("gpt-4o")}

ProviderGenerateResponse ==
    /\ fn = "none"
    /\ \E provider \in Providers, api_key_valid \in BOOLEAN, model \in GivenModels :
        \E vendor \in [1..Len(models_to_try(provider, model)) -> VendorOutcomes] :
            /\ arg' = [provider |-> provider, api_key_valid |-> api_key_valid,
                       model |-> model, vendor |-> vendor]
            /\ ret' = generate_response(provider, api_key_valid, model, vendor)
    /\ fn' = "providers.LLMProvider.generate_response"
    /\ UNCHANGED review_vars
    /\ UNCHANGED run_vars

NextCall ==
    \/ ProviderGenerateResponse
    \/ FilterIssueList
    \/ ParseLineNumberLabel
    \/ ParseIssueBlock
    \/ SplitIssueBlocks
    \/ FormatIssues
    \/ DetermineReviewType
    \/ BaseGenerateResponse
    \/ OpenAIGenerateResponse
    \/ AnthropicGenerateResponse
    \/ BlockReviewTypeOf
    \/ ParseConfidence
    \/ ParseLineNumbers
    \/ ParseSeverity

SpecCall == InitCall /\ [][NextCall]_vars

-----------------------------------------------------------------------------
(* a review run from the command line: AIDiffReviewer.review, main.py *)

\* the two entry points and their options: --dry-run, --debug, and for main.py
\* --llm-result
Configs ==
    {[entry |-> "aidiff", dry_run |-> d, debug |-> g, llm_result |-> FALSE] :
        d \in BOOLEAN, g \in BOOLEAN}
    \cup {[entry |-> "main", dry_run |-> d, debug |-> g, llm_result |-> r] :
            d \in BOOLEAN, g \in BOOLEAN, r \in BOOLEAN}

\* what the LLM answers
ReviewResponses == {Block(f) : f \in LabelledFields} \cup {S("No issues found.")}

NoDiffMessage == "No diff found or error occurred."

PromptHeader == "===== FINAL PROMPT TO SEND TO LLM ====="

DryRunMessage == "(Dry run: skipping LLM call)"

FallbackMessage == "Falling back to dry-run mode..."

RawResponseHeader == "===== RAW LLM RESPONSE ====="

\* the step that follows the printing of the prompt: always the LLM call
after_prompt_calls_llm(is_dry_run) == "calling"

\* the step that follows the printing of the prompt (reviewer.py lines 72-74,
\* main.py lines 118-120)
after_prompt(is_dry_run) == IF is_dry_run THEN "done" ELSE "calling"

InitReview ==
    /\ pc = "review"
    /\ output = <<>>
    /\ issues = <<>>
    /\ gitignore_file = None
    /\ gitignore_content = <<>>
    /\ filtered = <<>>
    /\ review_types \in ReviewTypeLists
    /\ files_analyzed \in FileLists
    /\ result = Nothing
    /\ error = "none"
    /\ data = Nothing
    /\ restored = Nothing
    /\ fn = "none"
    /\ arg = Nothing
    /\ ret = Nothing
    /\ config \in {Some(c) : c \in Configs}
    /\ dry_run = config[1].dry_run
    /\ llm_calls = 0
    /\ printed = <<>>

\* reviewer.py lines 53-56, main.py lines 105-112: without a diff the run ends
GetDiff ==
    /\ pc = "review"
    /\ \E diff_is_empty \in BOOLEAN :
        IF diff_is_empty
        THEN /\ printed' = Append(printed, NoDiffMessage)
             /\ pc' = "done"
        ELSE /\ printed' = printed
             /\ pc' = "diffed"
    /\ UNCHANGED <<output, issues, gitignore_file, gitignore_content, filtered, review_types,
                   files_analyzed, result, error, data, restored>>
    /\ UNCHANGED call_vars
    /\ UNCHANGED <<config, dry_run, llm_calls>>

\* reviewer.py lines 59-66, main.py lines 113-114
BuildPrompt ==
    /\ pc = "diffed"
    /\ pc' = "prompted"
    /\ UNCHANGED <<output, issues, gitignore_file, gitignore_content, filtered, review_types,
                   files_analyzed, result, error, data, restored>>
    /\ UNCHANGED call_vars
    /\ UNCHANGED run_vars

\* reviewer.py lines 69-74, main.py lines 115-120
ShowPrompt ==
    /\ pc = "prompted"
    /\ printed' = printed
                    \o (IF dry_run \/ config[1].debug THEN <<PromptHeader, "prompt">> ELSE <<>>)
                    \o (IF dry_run THEN <<DryRunMessage>> ELSE <<>>)
    /\ pc' = after_prompt(dry_run)
    /\ UNCHANGED <<output, issues, gitignore_file, gitignore_content, filtered, review_types,
                   files_analyzed, result, error, data, restored>>
    /\ UNCHANGED call_vars
    /\ UNCHANGED <<config, dry_run, llm_calls>>

\* main.py lines 122-125
UseLLMResult ==
    /\ pc = "calling"
    /\ config[1].llm_result
    /\ \E response \in ReviewResponses : output' = response
    /\ printed' = Append(printed, "Using Copilot analysis result from VS Code extension")
    /\ pc' = "responded"
    /\ UNCHANGED <<issues, gitignore_file, gitignore_content, filtered, review_types,
                   files_analyzed, result, error, data, restored>>
    /\ UNCHANGED call_vars
    /\ UNCHANGED <<config, dry_run, llm_calls>>

\* reviewer.py line 77 and lines 108-112; main.py lines 127-152
CallLLM ==
    /\ pc = "calling"
    /\ ~config[1].llm_result
    /\ \E outcome \in ReviewResponses \cup {ApiRaises} :
        IF config[1].entry = "aidiff"
        THEN /\ llm_calls' = llm_calls + 1
             /\ dry_run' = dry_run
             /\ printed' = printed
             /\ IF outcome = ApiRaises
                THEN /\ error' = "raise AIDiffError"
                     /\ output' = output
                     /\ pc' = "error"
                ELSE /\ error' = error
                     /\ output' = outcome
                     /\ pc' = "responded"
        ELSE /\ llm_calls' = IF dry_run THEN llm_calls ELSE llm_calls + 1
             /\ error' = error
             /\ pc' = "responded"
             /\ IF dry_run
                THEN /\ output' = <<>>
                     /\ dry_run' = dry_run
                     /\ printed' = printed
                ELSE IF outcome = ApiRaises
                THEN /\ output' = <<>>
                     /\ dry_run' = TRUE
                     /\ printed' = Append(printed, FallbackMessage)
                ELSE /\ output' = outcome
                     /\ dry_run' = dry_run
                     /\ printed' = printed
    /\ UNCHANGED <<issues, gitignore_file, gitignore_content, filtered, review_types,
                   files_analyzed, result, data, restored>>
    /\ UNCHANGED call_vars
    /\ UNCHANGED config

\* reviewer.py lines 80-101 with output_format json; main.py lines 154-182
Report ==
    /\ pc = "responded"
    /\ \E now \in Timestamps :
        IF config[1].entry = "aidiff"
        THEN /\ gitignore_content' = _read_gitignore(gitignore_file)
             /\ filtered' = filter_false_positives(parse_llm_output(output),
                                                   _read_gitignore(gitignore_file))
             /\ issues' = IssuesAfterFilter(parse_llm_output(output),
                                            _read_gitignore(gitignore_file))
             /\ IF ConvertRaises(filtered', review_types)
                THEN /\ error' = "raise AIDiffError"
                     /\ result' = result
                     /\ pc' = "error"
                ELSE /\ result' = Some(convert_issues_to_dto(filtered', review_types, now))
                     /\ error' = error
                     /\ pc' = "done"
        ELSE /\ UNCHANGED <<gitignore_content, filtered, issues>>
             /\ IF ProcessRaises(review_types)
                THEN /\ error' = ValueError
                     /\ result' = result
                     /\ pc' = "error"
                ELSE /\ result' = Some(process_llm_response(output, review_types,
                                                            files_analyzed, now))
                     /\ error' = error
                     /\ pc' = "done"
    /\ printed' = printed
                    \o (IF config[1].debug THEN <<RawResponseHeader, "llm_response">> ELSE <<>>)
                    \o (IF pc' = "done" THEN <<"result">> ELSE <<>>)
    /\ UNCHANGED <<output, gitignore_file, review_types, files_analyzed, data, restored>>
    /\ UNCHANGED call_vars
    /\ UNCHANGED <<config, dry_run, llm_calls>>

NextReview ==
    \/ GetDiff
    \/ BuildPrompt
    \/ ShowPrompt
    \/ UseLLMResult
    \/ CallLLM
    \/ Report

SpecReview == InitReview /\ [][NextReview]_vars

-----------------------------------------------------------------------------
(* the properties *)

\* the records of a result, file after file
RECURSIVE ResultIssues(_)
ResultIssues(files) ==
    IF files = <<>> THEN <<>> ELSE files[1].issues \o ResultIssues(Tail(files))

\* the record a block of labelled fields stands for: the trimmed values
ExpectedIssue(f) ==
    [issue |-> strip(f.issue), file |-> strip(f.file), severity |-> strip(f.severity),
     confidence |-> strip(f.confidence), suggestion |-> strip(f.suggestion),
     line_number |-> <<>>, code |-> <<>>]

\* the sequences of well-formed blocks that fit a response with their delimiters
BlockSeqs == UNION {[1..n -> LabelledFields] : n \in 1..((MaxChunks + 1) \div 2)}

\* the responses that hold the blocks fs delimited by '---'
Delimited(fs) ==
    LET body == join(Sep, [k \in 1..Len(fs) |-> Block(fs[k])])
    IN  {Sep \o body \o Sep, Sep \o body, body \o Sep} \cup (IF Len(fs) > 1 THEN {body} ELSE {})

DelimitedCases == UNION {{<<r, fs>> : r \in Delimited(fs)} : fs \in BlockSeqs}

Example == CHOOSE f \in LabelledFields : f.file = S("foo.py")

ExampleResponse == Sep \o Block(Example) \o Sep

\* C1: parse_llm_output of a response of N '---'-delimited blocks with the bold
\* labels Issue, File, Severity, Confidence and Suggestion returns exactly N
\* records, in response order, whose fields are the trimmed label values; the
\* one-block example gives file 'foo.py', severity 'High', a description with
\* 'Hardcoded secret', and normalizes to confidence 95 and severity High.
C1_DelimitedBlocksParse ==
    /\ pc = "parsed" =>
          \A c \in DelimitedCases :
              output = c[1] => issues = [k \in 1..Len(c[2]) |-> ExpectedIssue(c[2][k])]
    /\ pc = "converted" /\ output = ExampleResponse =>
          /\ Len(issues) = 1
          /\ issues[1].file = S("foo.py")
          /\ issues[1].severity = S("High")
          /\ contains(issues[1].issue, S("Hardcoded secret"))
          /\ Len(ResultIssues(result[1].files)) = 1
          /\ ResultIssues(result[1].files)[1].confidence = 95
          /\ ResultIssues(result[1].files)[1].severity = "Severity.HIGH"
          /\ ResultIssues(result[1].files)[1].file_path = S("foo.py")

C1_ExampleParsedAndNormalized ==
    /\ pc = "converted"
    /\ output = ExampleResponse
    /\ Len(issues) = 1
    /\ ResultIssues(result[1].files)[1].confidence = 95

\* C2: for every response, every list of requested categories drawn from
\* security, accessibility, performance and quality, and every list of analyzed
\* files, the pipeline returns an AnalysisResult and never raises an error.
C2_PipelineNeverRaises == error = "none"

\* C3: for the empty response parse_llm_output returns exactly one fallback
\* record (empty description, file 'N/A'); filter_false_positives removes it,
\* so the result has total_issues 0 and holds no record.
C3_EmptyResponseYieldsNoIssue ==
    output = <<>> =>
        /\ pc = "parsed" =>
              Len(issues) = 1 /\ issues[1].issue = <<>> /\ issues[1].file = S("N/A")
        /\ pc = "filtered" => filtered = <<>>
        /\ result # Nothing =>
              result[1].total_issues = 0 /\ ResultIssues(result[1].files) = <<>>

C3_EmptyResponseConverted ==
    /\ pc = "converted"
    /\ output = <<>>
    /\ Len(issues) = 1
    /\ filtered = <<>>
    /\ result[1].total_issues = 0

LabelNames ==
    {S("issue"), S("file"), S("severity"), S("confidence"), S("suggestion"), S("code"),
     S("line number")}

\* a description that, trimmed and lower-cased, is empty, has no word
\* character, or is a label name
InvalidDescription(d) ==
    \/ lower(strip(d)) = <<>>
    \/ \A i \in 1..Len(strip(d)) : strip(d)[i] \notin WordChars
    \/ lower(strip(d)) \in LabelNames

\* C4: no record whose description, trimmed and lower-cased, is empty, consists
\* solely of non-word characters, or equals a label name is present in any
\* AnalysisResult.
C4_NoInvalidDescriptionInResult ==
    result # Nothing =>
        \A k \in 1..Len(ResultIssues(result[1].files)) :
            ~InvalidDescription(ResultIssues(result[1].files)[k].issue)

\* the six placeholder patterns, on the trimmed and lower-cased value
ListedPlaceholder(val) ==
    LET v == lower(strip(val))
    IN  \/ contains(v, S("your")) /\ contains(v, S("key"))
        \/ contains(v, S("example"))
        \/ startswith(v, S("<")) /\ endswith(v, S(">"))
        \/ contains(v, S("changeme"))
        \/ contains(v, S("placeholder"))
        \/ /\ contains(v, S("key"))
           /\ \A i \in 1..Len(v) : v[i] \in LowerSet \cup {"_"}

\* the other drop rules: the .gitignore rule and the invalid description
OtherDropRule(r) ==
    \/ InvalidDescription(r.issue)
    \/ /\ r.file = S(".gitignore")
       /\ contains(lower(r.issue), S("not added to"))
       /\ contains(gitignore_content, S(".env"))

\* C5: filter_false_positives drops a record for a placeholder exactly when its
\* description, suggestion or code (trimmed, lower-cased) contains 'your' and
\* 'key', contains 'example', is wrapped in angle brackets, contains
\* 'changeme', contains 'placeholder', or is made of letters and underscores
\* around 'key'; a record that matches none of these and no other drop rule
\* is kept.
C5_PlaceholderDroppedExactlyWhenListed ==
    pc = "filtered" /\ Len(issues) = 1 =>
        LET listed == \/ ListedPlaceholder(issues[1].issue)
                      \/ ListedPlaceholder(issues[1].suggestion)
                      \/ ListedPlaceholder(issues[1].code)
        IN  /\ listed => filtered = <<>>
            /\ ~listed /\ ~OtherDropRule(issues[1]) => Len(filtered) = 1

\* C6: in every AnalysisResult an aggregator produces, total_issues is the sum
\* of the lengths of the per-file issue lists.
C6_TotalIsSumOfFileIssues ==
    result # Nothing => result[1].total_issues = Len(ResultIssues(result[1].files))

C6_TwoFilesThreeIssues ==
    /\ pc = "converted"
    /\ Len(result[1].files) = 2
    /\ Len(result[1].files[1].issues) = 2
    /\ result[1].total_issues = 3

\* C7: every file in analyzed_files appears as a file entry of the
\* AnalysisResult, with an empty issue list if it received no record.
C7_EveryAnalyzedFileListed ==
    result # Nothing =>
        \A k \in 1..Len(files_analyzed) :
            \E g \in 1..Len(result[1].files) : result[1].files[g].file_path = files_analyzed[k]

\* the trailing segment of a path
LastSegment(path) == split_char(path, "/")[Len(split_char(path, "/"))]

\* the analyzed files a record naming path may be assigned to: the file equal
\* to it; otherwise those with its trailing segment; otherwise the first
ExpectedGroups(path, files) ==
    IF \E k \in 1..Len(files) : files[k] = path THEN {path}
    ELSE IF \E k \in 1..Len(files) : LastSegment(files[k]) = LastSegment(path)
    THEN {files[k] : k \in {j \in 1..Len(files) : LastSegment(files[j]) = LastSegment(path)}}
    ELSE {files[1]}

\* C8: the aggregator assigns a record to the analyzed file equal to its
\* file_path when one exists; otherwise to an analyzed file whose trailing
\* path segment equals the record's; only when neither exists to the first
\* analyzed file.  Afterwards the record's file_path is the path of its group.
C8_RecordAssignedToMatchingFile ==
    pc = "processed" /\ files_analyzed # <<>> =>
        /\ \A r \in {x \in Range(_parse_issues_from_response(output, review_types)) :
                        x.file_path # None /\ x.file_path # <<>>} :
              \E g \in 1..Len(result[1].files) :
                  /\ result[1].files[g].file_path \in ExpectedGroups(r.file_path, files_analyzed)
                  /\ \E k \in 1..Len(result[1].files[g].issues) :
                        result[1].files[g].issues[k]
                            = [r EXCEPT !.file_path = result[1].files[g].file_path]
        /\ \A g \in 1..Len(result[1].files) :
              \A k \in 1..Len(result[1].files[g].issues) :
                  result[1].files[g].issues[k].file_path = result[1].files[g].file_path

C8_BareNameAssignedByTrailingSegment ==
    /\ pc = "processed"
    /\ files_analyzed = <<S("src/app.js")>>
    /\ Len(result[1].files[1].issues) = 1
    /\ result[1].files[1].issues[1].issue = S("Missing alt text")
    /\ result[1].files[1].issues[1].file_path = S("src/app.js")

\* C9: when analyzed_files is not empty the aggregator loses no record: every
\* record it is given, whatever its file_path, an absent one included, is
\* placed in a file group, so total_issues is the number of records given.
C9_NoRecordLost ==
    pc = "processed" /\ files_analyzed # <<>> =>
        result[1].total_issues = Len(_parse_issues_from_response(output, review_types))

\* C10: for every AnalysisResult r, from_dict(r.to_dict()) returns a value
\* equal to r on every field: the severity and review-type enumerants,
\* line_numbers, file_path, total_issues and the timestamp.
C10_RoundTrip ==
    /\ data # Nothing => error = "none"
    /\ pc = "restored" => restored = result

C10_RestoredWithLineNumbers ==
    /\ pc = "restored"
    /\ Len(restored[1].files) = 2
    /\ \E k \in 1..Len(ResultIssues(restored[1].files)) :
          ResultIssues(restored[1].files)[k].line_numbers = <<3, 4, 5>>

\* the four categories a record may be given
CategoryMembers ==
    {"ReviewType.SECURITY", "ReviewType.ACCESSIBILITY", "ReviewType.PERFORMANCE",
     "ReviewType.QUALITY"}

\* C11: category assignment never raises: for every record and every list of
\* requested categories drawn from security, accessibility, performance and
\* quality, it returns one of those four categories.
C11_CategoryAssignmentReturnsCategory ==
    fn \in {"_determine_review_type", "_parse_single_issue"} => ret \in CategoryMembers

\* the keywords of the category at a place of the priority order
KeywordsAt(i) ==
    <<security_keywords, accessibility_keywords, performance_keywords, quality_keywords>>[i]

\* the places, in the priority order, of the requested categories
RequestedPlaces(rts) == {i \in 1..4 : \E k \in 1..Len(rts) : rts[k] = Categories[i]}

\* the requested places with a keyword in the description, whatever its case
MatchingPlaces(description, rts) ==
    {i \in RequestedPlaces(rts) :
        \E k \in 1..Len(KeywordsAt(i)) : contains(lower(description), S(KeywordsAt(i)[k]))}

\* the first requested category with a keyword in the description, else the
\* first requested category, else security
ExpectedCategory(description, rts) ==
    IF MatchingPlaces(description, rts) # {}
    THEN Categories[Min(MatchingPlaces(description, rts))]
    ELSE IF RequestedPlaces(rts) # {} THEN Categories[Min(RequestedPlaces(rts))]
    ELSE "security"

\* the member of a category
MemberOf(category) ==
    CASE category = "security" -> "ReviewType.SECURITY"
      [] category = "accessibility" -> "ReviewType.ACCESSIBILITY"
      [] category = "performance" -> "ReviewType.PERFORMANCE"
      [] category = "quality" -> "ReviewType.QUALITY"

\* C12: the category of a record is the first one, in the order security,
\* accessibility, performance, quality, that is requested and has a keyword in
\* the description; without such a category it is the first requested one in
\* that order, and security when none is requested.  Stated for the requests
\* without quality, whose category exists.
C12_CategoryByPriorityAndKeyword ==
    (/\ fn \in {"_determine_review_type", "_parse_single_issue"}
     /\ ~in_list("quality", arg.review_types))
        => ret = MemberOf(ExpectedCategory(arg.issue, arg.review_types))

\* str(n), for an int
RECURSIVE str(_)
str(n) ==
    IF n < 0 THEN <<"-">> \o str(0 - n)
    ELSE IF n < 10 THEN <<Digits[n + 1]>>
    ELSE str(n \div 10) \o <<Digits[(n % 10) + 1]>>

\* C13: parse_confidence returns, for every string, an integer of 0..100
\* without raising, 50 for the empty string and for a string that is no
\* integer once its percent signs and surrounding white space are removed,
\* and parsing the decimal text of its result gives the same result.
C13_ParseConfidenceTotalIdempotent ==
    fn = "parse_confidence" =>
        /\ ret \in 0..100
        /\ (arg = <<>> \/ ~int_ok(strip(remove_char(arg, "%")))) => ret = 50
        /\ parse_confidence(str(ret)) = ret

\* an input above the range was clamped to 100
C13_ClampedTo100 ==
    fn = "parse_confidence" /\ arg = S("150") /\ ret = 100

\* whether a trimmed string has the form <int>-<int> and no leading minus
IsRange(s) ==
    /\ s[1] # "-"
    /\ Len(split_char(s, "-")) = 2
    /\ int_ok(split_char(s, "-")[1])
    /\ int_ok(split_char(s, "-")[2])

\* the integers of the trimmed pieces that are strings of digits, in order
RECURSIVE PlainIntegers(_)
PlainIntegers(pieces) ==
    IF pieces = <<>> THEN <<>>
    ELSE (IF isdigit(strip(Head(pieces))) THEN <<DigitsValue(strip(Head(pieces)))>> ELSE <<>>)
             \o PlainIntegers(Tail(pieces))

\* the line numbers of a string: of a range, else of a list with commas, else
\* of one integer, else none
ExpectedLineNumbers(x) ==
    IF strip(x) = <<>> THEN <<>>
    ELSE IF IsRange(strip(x))
    THEN [k \in 1..(int(split_char(strip(x), "-")[2]) - int(split_char(strip(x), "-")[1]) + 1) |->
            int(split_char(strip(x), "-")[1]) + k - 1]
    ELSE IF \E i \in 1..Len(x) : x[i] = "," THEN PlainIntegers(split_char(strip(x), ","))
    ELSE IF isdigit(strip(x)) THEN <<DigitsValue(strip(x))>>
    ELSE <<>>

\* C14: parse_line_numbers returns no line for the empty string, the
\* inclusive range for <int>-<int> without a leading minus, otherwise the
\* integers of the plain-integer pieces of a string with commas, otherwise the
\* one integer of a plain integer, and no line for anything else; it never
\* raises.
C14_ParseLineNumbersByForm ==
    fn = "parse_line_numbers" => ret = ExpectedLineNumbers(arg)

\* C15: the line numbers of a record are a sequence, possibly empty, of
\* positive integers, for every raw line number string.
C15_LineNumbersPositive ==
    fn = "parse_line_numbers" =>
        /\ ret \in Seq(Int)
        /\ \A k \in 1..Len(ret) : ret[k] >= 1

\* the severity of each word of the table
SeverityTable ==
    (S("critical") :> "Severity.HIGH") @@ (S("high") :> "Severity.HIGH")
        @@ (S("medium") :> "Severity.MEDIUM") @@ (S("moderate") :> "Severity.MEDIUM")
        @@ (S("low") :> "Severity.LOW") @@ (S("minor") :> "Severity.LOW")

\* C16: parse_severity gives the trimmed lower-cased input the severity of the
\* table (critical, high: High; medium, moderate: Medium; low, minor: Low) and
\* Medium to every other string, the empty one included; it never raises and
\* its result is a declared severity.
C16_ParseSeverityTable ==
    fn = "parse_severity" =>
        /\ ret \in SeverityMembers
        /\ ret = (IF strip(lower(arg)) \in DOMAIN SeverityTable
                  THEN SeverityTable[strip(lower(arg))]
                  ELSE "Severity.MEDIUM")

\* an upper-case word with white space around it was read from the table
C16_UpperCaseHighParsed ==
    fn = "parse_severity" /\ arg = S(" HIGH ") /\ ret = "Severity.HIGH"

\* a record that a rule other than the .gitignore rule drops
DroppedByAnotherRule(r) ==
    \/ _is_placeholder_value(r.code)
    \/ _is_placeholder_value(r.suggestion)
    \/ _is_placeholder_value(r.issue)
    \/ InvalidDescription(r.issue)

\* whether the ignore list is readable and holds '.env'
IgnoreListHasEnv == gitignore_file # None /\ contains(gitignore_file, S(".env"))

\* C17: of the records no other rule drops, filter_false_positives drops
\* exactly those whose file is '.gitignore' and whose lower-cased description
\* contains 'not added to' while the ignore list contains '.env'; an
\* unreadable ignore list is read as the empty text, drops nothing by this
\* rule, and raises no error.
C17_GitignoreRule ==
    pc = "filtered" /\ Len(issues) = 1 =>
        /\ error = "none"
        /\ gitignore_file = None => gitignore_content = <<>>
        /\ ~DroppedByAnotherRule(issues[1]) =>
              (filtered = <<>>
                  <=> /\ issues[1].file = S(".gitignore")
                      /\ contains(lower(issues[1].issue), S("not added to"))
                      /\ IgnoreListHasEnv)

\* a record about .gitignore was dropped because the ignore list names .env
C17_DroppedBecauseEnvListed ==
    /\ pc = "filtered"
    /\ Len(issues) = 1
    /\ issues[1].file = S(".gitignore")
    /\ issues[1].issue = S("Secrets file NOT ADDED TO the ignore list")
    /\ ~DroppedByAnotherRule(issues[1])
    /\ IgnoreListHasEnv
    /\ filtered = <<>>

\* whether the response gives this value after a File label
IsRawFileValue(value) == value # <<>> /\ contains(output, S("**File:** ") \o value)

\* whether the response gives this value after a Suggestion label
IsRawSuggestion(value) == value # <<>> /\ contains(output, S("**Suggestion:** ") \o value)

\* whether a value is a str
IsStr(value) == value # None /\ value \in Seq(STRING)

\* a record all of whose fields hold a real value or their sentinel
FieldsDefined(r) ==
    /\ r.file_path # None
    /\ r.file_path = S("N/A") \/ IsRawFileValue(r.file_path)
    /\ r.suggestion = S("No suggestion provided") \/ IsRawSuggestion(r.suggestion)
    /\ IsStr(r.code)
    /\ r.severity \in SeverityMembers
    /\ r.confidence \in 0..100

\* C18: every record of an AnalysisResult has every field defined: file_path
\* is the raw File value or else 'N/A', never null or another value,
\* suggestion is the raw value or else 'No suggestion provided', code is a
\* string, severity and confidence hold their parsed or default values.
C18_EveryFieldDefined ==
    pc \in {"converted", "processed"} =>
        \A k \in 1..Len(ResultIssues(result[1].files)) :
            FieldsDefined(ResultIssues(result[1].files)[k])

\* the providers' entry points
ProviderCalls ==
    {"LLMProvider.generate_response", "OpenAIProvider.generate_response",
     "AnthropicProvider.generate_response"}

C20_DryRunNeverCallsLLM ==
    config # Nothing /\ config[1].dry_run =>
        /\ llm_calls = 0
        /\ pc \in {"review", "diffed", "prompted", "done"}
        /\ pc = "done" /\ printed # <<NoDiffMessage>> =>
              printed = <<PromptHeader, "prompt", DryRunMessage>>

\* a run with dry_run set printed its prompt and ended
C20_DryRunEnded ==
    /\ config # Nothing
    /\ config[1].dry_run
    /\ pc = "done"
    /\ printed = <<PromptHeader, "prompt", DryRunMessage>>
    /\ llm_calls = 0

\* the indexes of the records that are the first of their file
FirstOfFile(records) ==
    {k \in 1..Len(records) : \A j \in 1..(k - 1) : records[j].file # records[k].file}

\* the marker of a severity: the one of its lower-cased name, else the unknown one
MarkerOf(severity) ==
    CASE lower(severity) = S("critical") -> LockMarker
      [] lower(severity) \in {S("high"), S("medium")} -> WarningMarker
      [] lower(severity) = S("low") -> CheckMarker
      [] OTHER -> QuestionMarker

\* the text of one record, its closing blank line included
RecordText(r) ==
    MarkerOf(r.severity) \o S(" **Issue:** ") \o r.issue \o S("\n   **Severity:** ") \o r.severity
        \o S("\n   **Confidence:** ") \o r.confidence
        \o (IF r.line_number = <<>> THEN <<>> ELSE S("\n   **Line Number:** ") \o r.line_number)
        \o (IF r.code = <<>> THEN <<>> ELSE S("\n   **Code:** ") \o r.code)
        \o S("\n   **Suggestion:** ") \o r.suggestion \o S("\n")

\* the text of the records of one file among records k.., in input order
RECURSIVE FileText(_, _, _)
FileText(records, file, k) ==
    IF k > Len(records) THEN <<>>
    ELSE (IF records[k].file = file THEN S("\n") \o RecordText(records[k]) ELSE <<>>)
             \o FileText(records, file, k + 1)

\* the text of the groups whose first records are at the indexes firsts
RECURSIVE GroupedText(_, _)
GroupedText(records, firsts) ==
    IF firsts = {} THEN <<>>
    ELSE (IF Min(firsts) = 1 THEN <<>> ELSE S("\n"))
             \o S("\n### ") \o <<BT>> \o records[Min(firsts)].file \o <<BT>> \o S("\n")
             \o FileText(records, records[Min(firsts)].file, 1)
             \o GroupedText(records, firsts \ {Min(firsts)})

\* how many times p occurs in s
Occurrences(s, p) == Cardinality({i \in 1..Len(s) : StartsAt(s, i, p)})

\* C21: format_issues writes, for each file in the order of its first
\* record, a heading line and then each record of the file in input order:
\* the marker of the lower-cased severity with the description, the
\* severity, the confidence, the line number if there is one, the code if
\* there is one, the suggestion and a blank line; every record is written
\* exactly once.
C21_GroupedRendering ==
    fn = "MarkdownFormatter.format_issues" =>
        /\ ret = GroupedText(arg, FirstOfFile(arg))
        /\ Occurrences(ret, S("**Issue:**")) = Len(arg)
        /\ Occurrences(ret, S("### ")) = Cardinality({arg[k].file : k \in 1..Len(arg)})

\* two records of two files were written, the first with the marker of 'High'
C21_TwoFilesRendered ==
    /\ fn = "MarkdownFormatter.format_issues"
    /\ Len(arg) = 2
    /\ arg[1].file # arg[2].file
    /\ arg[1].severity = S("High")
    /\ arg[2].code # <<>>
    /\ StartsAt(ret, 1, S("\n### ") \o <<BT>> \o arg[1].file \o <<BT>> \o S("\n\n") \o WarningMarker)

\* the runs of three or more hyphens that stand on their own: nothing but
\* white space shares their line
OwnLineRuns(s) ==
    {r \in Runs(s, "-") :
        /\ r[2] - r[1] + 1 >= 3
        /\ \A i \in 1..(r[1] - 1) : (\A j \in i..(r[1] - 1) : s[j] # NL) => s[i] \in WhiteSpace
        /\ \A i \in (r[2] + 1)..Len(s) : (\A j \in (r[2] + 1)..i : s[j] # NL) => s[i] \in WhiteSpace}

\* the index of the first character of each line of s
LineStarts(s) == {i \in 1..Len(s) : i = 1 \/ s[i - 1] = NL}

\* the line of s that starts at index i, without its line break
LineAt(s, i) == SubSeq(s, i, Min({j \in i..Len(s) : j = Len(s) \/ s[j + 1] = NL}
                                     \cup {k \in (i - 1)..(i - 1) : s[i] = NL}))

\* the starts of the lines whose trimmed content starts with an Issue label
LabelLineStarts(s) ==
    {i \in LineStarts(s) :
        \/ startswith(strip(LineAt(s, i)), S("**Issue:**"))
        \/ startswith(strip(LineAt(s, i)), S("Issue:"))}

\* the text from each label line up to the next label line or the end
LabelBlocks(s) ==
    [k \in 1..Cardinality(LabelLineStarts(s)) |->
        LET from == CHOOSE i \in LabelLineStarts(s) :
                        Cardinality({j \in LabelLineStarts(s) : j < i}) = k - 1
            later == {j \in LabelLineStarts(s) : j > from}
        IN  SubSeq(s, from, IF later = {} THEN Len(s) ELSE Min(later) - 1)]

\* the trimmed non-empty pieces between the hyphen runs standing on their
\* own when there are two of them at least, else the blocks at the label lines
ExpectedBlocks(s) ==
    IF Len(stripped_blocks(Pieces(s, OwnLineRuns(s)))) >= 2
    THEN stripped_blocks(Pieces(s, OwnLineRuns(s)))
    ELSE stripped_blocks(LabelBlocks(s))

\* C22: the hyphen split is used only when splitting on the runs of three or
\* more hyphens standing on their own gives two non-empty pieces at least;
\* otherwise the response is split at the lines that start with the Issue
\* label; the blocks are trimmed, non-empty and in response order.  Stated on
\* the number of blocks and on the line each block starts with.
C22_HyphenSplitNeedsTwoPieces ==
    pc = "parsed" /\ stripped_blocks(LabelBlocks(output)) # <<>> =>
        /\ Len(stripped_blocks(IssueBlocks(output))) = Len(ExpectedBlocks(output))
        /\ \A k \in 1..Len(ExpectedBlocks(output)) :
              LineAt(stripped_blocks(IssueBlocks(output))[k], 1) = LineAt(ExpectedBlocks(output)[k], 1)
\* C23: in the label split every line whose trimmed content starts with the
\* bold or plain Issue label starts a block, a block holds its label line and
\* the lines up to the next label line or the end, the lines before the first
\* label line are in no block, and there are as many blocks as label lines;
\* when no block is found the whole trimmed response is the single issue.
C23_LabelSplitBlocks ==
    fn = "IssueParser.parse_llm_output" /\ Len(re_split_hyphens(arg)) <= 1 =>
        /\ Len(ret.issue_blocks) = Cardinality(LabelLineStarts(arg))
        /\ stripped_blocks(ret.issue_blocks) = stripped_blocks(LabelBlocks(arg))
        /\ \A k \in 1..Len(ret.issue_blocks) : IsIssueLine(LineAt(ret.issue_blocks[k], 1))
        /\ stripped_blocks(ret.issue_blocks) = <<>> =>
              Len(ret.issues) = 1 /\ ret.issues[1].issue = strip(arg)

\* a response with text before the first of two label lines was split
C23_TextBeforeFirstLabelDropped ==
    /\ fn = "IssueParser.parse_llm_output"
    /\ Cardinality(LabelLineStarts(arg)) = 2
    /\ 1 \notin LabelLineStarts(arg)
    /\ strip(LineAt(arg, 1)) # <<>>
    /\ Len(ret.issue_blocks) = 2
\* the code between the fences of a written Code value, trimmed
CodeBetweenFences(c) == strip(join(<<NL>>, c.lines))

\* C24: for a block that holds the seven bold labels, in any order, with
\* values on one or more lines and a Code value that may be fenced on the
\* label line, _parse_issue_block returns all seven fields, each the text
\* written after its label up to the next label, trimmed (for Code, that text
\* or the code between its fences).
C24_SevenFieldsRecovered ==
    fn = "IssueParser._parse_issue_block" =>
        /\ DOMAIN ret = {field_map[FieldNames[i]] : i \in 1..Len(FieldNames)}
        /\ \A i \in 1..Len(FieldNames) :
              FieldNames[i] # "Code" =>
                  ret[field_map[FieldNames[i]]] = strip(WrittenText(arg, FieldNames[i]))
        /\ ret["code"] \in {strip(CodeText(arg.code)), CodeBetweenFences(arg.code)}
\* the six fields other than Code are the trimmed texts written after their labels
OtherFieldsRecovered ==
    \A i \in 1..Len(FieldNames) :
        FieldNames[i] # "Code" =>
            /\ field_map[FieldNames[i]] \in DOMAIN ret
            /\ ret[field_map[FieldNames[i]]] = strip(WrittenText(arg, FieldNames[i]))

\* C25: from the line that opens a fence in the Code field, on the label line
\* or on a later one, to the line that starts with the closing fence, no line
\* is taken for a label: each goes to the Code value as it is, the field
\* closes at the closing fence and the labels after it are matched again.
C25_NoLabelInsideFence ==
    /\ fn = "IssueParser._parse_issue_block"
    /\ arg.code.layout \in {"label", "next"}
    /\ arg.code.close = "own"
    => /\ "code" \in DOMAIN ret
       /\ contains(ret["code"], CodeBetweenFences(arg.code))
       /\ ~contains(ret["code"], S("**"))
       /\ OtherFieldsRecovered

\* C26: for a Code value fenced with two or three backticks, with or without
\* a language tag, the opening fence on the label line or on the next one,
\* the closing fence on its own line or at the end of the last code line, the
\* extracted code is the text between the fences, without the fences.
C26_CodeWithoutFences ==
    fn = "IssueParser._parse_issue_block" /\ arg.code.layout # "unfenced" =>
        "code" \in DOMAIN ret /\ ret["code"] = CodeBetweenFences(arg.code)
\* C27: a line that starts with the line-number label, singular or plural
\* ('Line Numbers', 'Line Number(s)'), bold or plain, starts the line-number
\* field and is not appended to the field open before it.
C27_LineNumberLabelVariants ==
    fn = "IssueParser._parse_issue_block(Line Number)" =>
        /\ "line_number" \in DOMAIN ret
        /\ ret["line_number"] = S("3-5")
        /\ ret["issue"] = S("SQL injection")
\* the description the claim gives the record of a block: its Issue value, or
\* the block cut to its first 100 characters, with an ellipsis when it is longer
ExpectedDescription(block) ==
    LET issue_data == _parse_issue_block(block)
    IN  IF "issue" \in DOMAIN issue_data /\ issue_data["issue"] # <<>>
        THEN issue_data["issue"]
        ELSE IF Len(block) > DescriptionLimit
        THEN SubSeq(block, 1, DescriptionLimit) \o S("...")
        ELSE block

\* C28: every non-empty block yields one record, whose description is the
\* block's Issue value or, when the block has none (a block without any label
\* included), the start of the block; the description is never empty.
C28_EveryBlockYieldsRecord ==
    pc = "parsed" /\ stripped_blocks(IssueBlocks(output)) # <<>> =>
        /\ Len(issues) = Len(stripped_blocks(IssueBlocks(output)))
        /\ \A k \in 1..Len(issues) :
              /\ issues[k].issue = ExpectedDescription(stripped_blocks(IssueBlocks(output))[k])
              /\ issues[k].issue # <<>>
\* a is b with some elements left out
RECURSIVE IsSubsequence(_, _)
IsSubsequence(a, b) ==
    IF a = <<>> THEN TRUE
    ELSE IF b = <<>> THEN FALSE
    ELSE IF a[1] = b[1] THEN IsSubsequence(Tail(a), Tail(b))
    ELSE IsSubsequence(a, Tail(b))

\* the record with its code emptied when the code is all white space
BlankCodeEmptied(r) ==
    IF \A i \in 1..Len(r.code) : r.code[i] \in WhiteSpace THEN [r EXCEPT !.code = <<>>] ELSE r

\* C29: filter_false_positives returns the kept records in their order, none
\* twice, and changes no field of a record, kept or dropped, except the code
\* of a kept record, emptied when it is all white space; filtering its own
\* result returns the same list.
C29_FilterKeepsRecordsUnchanged ==
    fn = "IssueFilter.filter_false_positives" =>
        /\ IsSubsequence(ret.filtered, ret.issues)
        /\ Len(ret.issues) = Len(arg.issues)
        /\ \A i \in 1..Len(arg.issues) :
              ret.issues[i] = IF IsKept(arg.issues[i], _read_gitignore(arg.gitignore_file))
                              THEN BlankCodeEmptied(arg.issues[i]) ELSE arg.issues[i]
        /\ Len(ret.filtered) =
              Cardinality({i \in 1..Len(arg.issues) :
                              IsKept(arg.issues[i], _read_gitignore(arg.gitignore_file))})
        /\ ret.again = ret.filtered

\* of two records the first was dropped and the second kept, its blank code emptied
C29_BlankCodeEmptied ==
    /\ fn = "IssueFilter.filter_false_positives"
    /\ Len(arg.issues) = 2
    /\ arg.issues[2].code = S(" \n")
    /\ ret.filtered = <<[arg.issues[2] EXCEPT !.code = <<>>]>>
    /\ ret.issues[1] = arg.issues[1]
\* the models the claim has tried: the given one, or the defaults in order
ClaimedModels == IF arg.model # None THEN <<arg.model>> ELSE get_default_models(arg.provider)

\* the requests after which no further model is tried
EndsTheCall(k) ==
    arg.vendor[k] \in {"text", "rate limit", "timeout", "connection error", "server error"}

\* the number of the last request made
LastRequest ==
    IF \E k \in 1..Len(ClaimedModels) : EndsTheCall(k)
    THEN Min({k \in 1..Len(ClaimedModels) : EndsTheCall(k)})
    ELSE Len(ClaimedModels)

\* C30: generate_response asks only the given model when there is one, else
\* the default models in order; it returns the first response that is not
\* blank; a rate-limit, network, timeout or server error is raised at once,
\* no further model being asked, for ChatGPT, Gemini and Claude; after any
\* other failure the next model is asked, and the call raises when all failed.
C30_ModelsTriedInOrder ==
    fn = "providers.LLMProvider.generate_response" /\ arg.api_key_valid =>
        /\ ret.tried = SubSeq(ClaimedModels, 1, LastRequest)
        /\ IF arg.vendor[LastRequest] = "text"
           THEN ret.result = Returns(ResponseText)
           ELSE ret.result[1] = "raise"
====
